---- MODULE Spec2Model ----
(***************************************************************************)
(* A model of mockapi-responder: the route compiler and resolver           *)
(* (src/utils/routeHandler.ts), the condition evaluator of the request     *)
(* dispatcher (src/core/server.ts) and the template engine                 *)
(* (src/utils/templateEngine.ts).                                          *)
(*                                                                         *)
(* Strings of the program are TLA+ strings; a character is a string of     *)
(* length one.  A JavaScript regular expression is modelled by the list of *)
(* atoms its source text denotes and by a backtracking matcher with the    *)
(* greedy priorities of the language.                                      *)
(***************************************************************************)
EXTENDS Integers, Sequences, FiniteSets, TLC

VARIABLES
    mockConfig,   \* MockServer.mockConfig in declaration order: the route keys,
                  \* with their endpoints where requests are dispatched
    routes,       \* MockServer.routes: the compiled, sorted route list
    reloads,      \* number of reloads of the config performed so far
    loadError,    \* what the last load of the config reported: "" or its failure
    lastReq,      \* the last request handed to the catch-all handler
    lastMatch,    \* what findMatchingRoute returned for lastReq
    decl,         \* a route declaration handed to parseRoute
    parsed,       \* what parseRoute returned (or that it threw)
    request,      \* the method and path handed to matchRoute, and how they were chosen
    idValue,      \* the raw text substituted for ":id" in the request path
    matched,      \* what matchRoute returned (or that it threw)
    endpoint,     \* an endpoint definition: its status and its condition
    context,      \* a request context: params, query, body, headers
    condResult,   \* what evaluateCondition returned, and the status the gate led to
    response,     \* the response template of the endpoint
    expanded,     \* the value processTemplate returned last
    passes,       \* how many times processTemplate was applied
    inbox,        \* the requests handed to the catch-all handler, by number
    calls,        \* for each request, where its handler is and what it did
    clock,        \* the time of the event loop, in ticks
    alive,        \* whether the server process is running
    served        \* the numbers of the answered requests, in answer order

vars == <<mockConfig, routes, reloads, loadError, lastReq, lastMatch, decl, parsed, request,
          idValue, matched, endpoint, context, condResult, response, expanded,
          passes, inbox, calls, clock, alive, served>>

routeVars == <<mockConfig, routes, reloads, loadError, lastReq, lastMatch>>
compileVars == <<decl, parsed, request, idValue, matched>>
condVars == <<endpoint, context, condResult>>
tplVars == <<response, expanded, passes>>
dispatchVars == <<inbox, calls, clock, alive, served>>

None == "(none)"

(***************************************************************************)
(* Strings.                                                                *)
(***************************************************************************)
Ch(s, i) == SubSeq(s, i, i)

Max(S) == CHOOSE x \in S : \A y \in S : y <= x

Min(S) == CHOOSE x \in S : \A y \in S : x <= y

LowerLetters == "abcdefghijklmnopqrstuvwxyz"

UpperLetters == "ABCDEFGHIJKLMNOPQRSTUVWXYZ"

Digits == "0123456789"

InStr(c, s) == \E i \in 1..Len(s) : Ch(s, i) = c

\* String.prototype.toUpperCase, on the ASCII letters
UpperCh(c) ==
    IF InStr(c, LowerLetters)
    THEN Ch(UpperLetters, CHOOSE i \in 1..Len(LowerLetters) : Ch(LowerLetters, i) = c)
    ELSE c

RECURSIVE toUpperCase(_)
toUpperCase(s) ==
    IF s = "" THEN "" ELSE UpperCh(Ch(s, 1)) \o toUpperCase(SubSeq(s, 2, Len(s)))

\* String.prototype.startsWith / endsWith / includes
startsWith(s, p) == Len(p) <= Len(s) /\ SubSeq(s, 1, Len(p)) = p

endsWith(s, p) == Len(p) <= Len(s) /\ SubSeq(s, Len(s) - Len(p) + 1, Len(s)) = p

includes(s, p) == \E i \in 1..(Len(s) - Len(p) + 1) : SubSeq(s, i, i + Len(p) - 1) = p

\* character classes: "lit" is the one character a.c, "any" and "wild" every
\* character, "param" every character but the slash, "space" blank and tab,
\* "word" the class \w, "digit" the class \d, "compare" the class [><=],
\* "blank" white space, "expr" every character but "}", "arg" every character
\* but ")"
AtomOk(a, c) ==
    CASE a.t = "lit"   -> c = a.c
      [] a.t = "any"   -> TRUE
      [] a.t = "wild"  -> TRUE
      [] a.t = "param" -> c # "/"
      [] a.t = "space" -> c = " " \/ c = "\t"
      [] a.t = "word"  -> InStr(c, LowerLetters) \/ InStr(c, UpperLetters)
                          \/ InStr(c, Digits) \/ c = "_"
      [] a.t = "digit" -> InStr(c, Digits)
      [] a.t = "compare" -> c = ">" \/ c = "<" \/ c = "="
      [] a.t = "blank" -> c = " " \/ c = "\t" \/ c = "\n" \/ c = "\r"
      [] a.t = "expr"  -> c # "}"
      [] a.t = "arg"   -> c # ")"

Class(t) == [t |-> t, c |-> "", q |-> "1"]

\* the end of the longest run of characters of class a that starts at i
\* (i - 1 when the run is empty)
RunEnd(s, i, a) ==
    LET stops == {j \in i..Len(s) : ~AtomOk(a, Ch(s, j))}
    IN  IF stops = {} THEN Len(s) ELSE Min(stops) - 1

\* Regular expressions built by parseRoute.
\*
\* The source text of the expression is the declared path after the three
\* replace() calls: every ":name" run becomes a group of one or more non-slash
\* characters, every "*" a group of any characters, every "/" an escaped slash.
\* Nothing else is escaped, so "." stays the any-character atom, "+" the
\* one-or-more quantifier of the atom before it and "(" the opening of a group.
\* The alphabet of declared paths in this model is letters, digits, "/", ":",
\* "*", ".", "+", "(", "-", "_", "%" and " "; on it the atoms below are what
\* new RegExp builds.
RECURSIVE PathTokens(_, _)
PathTokens(path, i) ==
    IF i > Len(path) THEN <<>>
    ELSE LET c == Ch(path, i) IN
         IF c = ":" /\ i < Len(path) /\ Ch(path, i + 1) # "/"
         THEN LET e == RunEnd(path, i + 1, Class("param"))
              IN  <<[t |-> "param", c |-> SubSeq(path, i + 1, e)]>>
                  \o PathTokens(path, e + 1)
         ELSE <<[t |-> CASE c = "*" -> "wild"
                         [] c = "." -> "any"
                         [] c = "+" -> "plus"
                         [] c = "(" -> "open"
                         [] OTHER   -> "lit",
                 c |-> c]>> \o PathTokens(path, i + 1)

InvalidRegExp == [valid |-> FALSE, atoms |-> <<>>]

\* new RegExp(`^${regexPath}$`): the atoms with their quantifiers, or a SyntaxError
\* ("Nothing to repeat", "Unterminated group")
RECURSIVE RegExpAtoms(_, _, _)
RegExpAtoms(toks, i, acc) ==
    IF i > Len(toks) THEN [valid |-> TRUE, atoms |-> acc]
    ELSE LET k == toks[i] IN
         IF k.t = "open" THEN InvalidRegExp
         ELSE IF k.t = "plus"
              THEN IF acc = <<>> \/ acc[Len(acc)].q # "1"
                   THEN InvalidRegExp
                   ELSE RegExpAtoms(toks, i + 1, [acc EXCEPT ![Len(acc)].q = "+"])
              ELSE RegExpAtoms(toks, i + 1, Append(acc, [t |-> k.t, c |-> k.c, q |-> "1"]))

NoMatch == [m |-> FALSE, caps |-> <<>>]

\* String.prototype.match with an anchored expression: the captured groups of
\* the match of atoms[i..] against s[j..], every quantifier greedy, the first
\* group choosing first (backtracking order)
RECURSIVE RegExpExec(_, _, _, _)
RegExpExec(atoms, i, s, j) ==
    IF i > Len(atoms)
    THEN IF j = Len(s) + 1 THEN [m |-> TRUE, caps |-> <<>>] ELSE NoMatch
    ELSE LET a == atoms[i] IN
         IF a.q = "1" /\ a.t \in {"lit", "any"}
         THEN IF j <= Len(s) /\ AtomOk(a, Ch(s, j))
              THEN RegExpExec(atoms, i + 1, s, j + 1)
              ELSE NoMatch
         ELSE LET run  == RunEnd(s, j, a) - j + 1
                  lo   == IF a.t = "wild" THEN 0 ELSE 1
                  tail == [k \in lo..run |-> RegExpExec(atoms, i + 1, s, j + k)]
                  ks   == {k \in lo..run : tail[k].m}
              IN  IF ks = {} THEN NoMatch
                  ELSE IF a.t \in {"param", "wild"}
                       THEN [m |-> TRUE,
                             caps |-> <<SubSeq(s, j, j + Max(ks) - 1)>>
                                      \o tail[Max(ks)].caps]
                       ELSE tail[Max(ks)]

(***************************************************************************)
(* decodeURIComponent, on escapes of printable ASCII characters: "%XY"     *)
(* with XY the hexadecimal code of the character.  A "%" not followed by   *)
(* two hexadecimal digits, or a lone byte above 7F, raises URIError.       *)
(* (A TLA+ string cannot hold the grave accent, code 60: the apostrophe    *)
(* stands in its place in Printable.)                                      *)
(***************************************************************************)
Printable ==
    " !\"#$%&'()*+,-./0123456789:;<=>?@ABCDEFGHIJKLMNOPQRSTUVWXYZ[\\]^_'abcdefghijklmnopqrstuvwxyz{|}~"

HexDigits == "0123456789ABCDEF"

IsHex(c) == InStr(toUpperCase(c), HexDigits)

HexVal(c) == (CHOOSE i \in 1..Len(HexDigits) : Ch(HexDigits, i) = toUpperCase(c)) - 1

URIError == [ok |-> FALSE, v |-> ""]

RECURSIVE decodeURIComponent(_)
decodeURIComponent(s) ==
    IF s = "" THEN [ok |-> TRUE, v |-> ""]
    ELSE IF Ch(s, 1) # "%"
         THEN LET r == decodeURIComponent(SubSeq(s, 2, Len(s)))
              IN  IF r.ok THEN [ok |-> TRUE, v |-> Ch(s, 1) \o r.v] ELSE URIError
         ELSE IF Len(s) < 3 \/ ~IsHex(Ch(s, 2)) \/ ~IsHex(Ch(s, 3))
              THEN URIError
              ELSE LET code == 16 * HexVal(Ch(s, 2)) + HexVal(Ch(s, 3))
                       r    == decodeURIComponent(SubSeq(s, 4, Len(s)))
                   IN  IF code < 32 \/ code > 126 \/ ~r.ok
                       THEN URIError
                       ELSE [ok |-> TRUE, v |-> Ch(Printable, code - 31) \o r.v]

(***************************************************************************)
(* RouteHandler (src/utils/routeHandler.ts).                               *)
(***************************************************************************)
\* route.split(' '): the text before the first space, and the rest rejoined
SplitMethod(route) ==
    LET sp == {i \in 1..Len(route) : Ch(route, i) = " "}
    IN  IF sp = {} THEN route ELSE SubSeq(route, 1, Min(sp) - 1)

SplitPath(route) ==
    LET sp == {i \in 1..Len(route) : Ch(route, i) = " "}
    IN  IF sp = {} THEN "" ELSE SubSeq(route, Min(sp) + 1, Len(route))

RECURSIVE ParamNamesOf(_)
ParamNamesOf(toks) ==
    IF toks = <<>> THEN <<>>
    ELSE (IF Head(toks).t = "param" THEN <<Head(toks).c>> ELSE <<>>)
         \o ParamNamesOf(Tail(toks))

ParseError == [ok |-> FALSE, method |-> "", path |-> "", originalRoute |-> "",
               paramNames |-> <<>>, pathRegex |-> <<>>]

\* RouteHandler.parseRoute: a ParsedRoute, or ParseError when it throws
parseRoute(route) ==
    LET method == SplitMethod(route)
        path   == SplitPath(route)
        toks   == PathTokens(path, 1)
        names  == ParamNamesOf(toks)
        regex  == RegExpAtoms(toks, 1, <<>>)
    IN  IF method = "" \/ path = "" THEN ParseError
        ELSE IF ~regex.valid THEN ParseError
        ELSE [ok |-> TRUE,
              method |-> toUpperCase(method),
              path |-> path,
              originalRoute |-> route,
              paramNames |-> names,
              pathRegex |-> regex.atoms]

\* A parameter map (a JavaScript object) is the list of its entries, in the
\* order the keys were first assigned.
HasKey(obj, key) == \E i \in 1..Len(obj) : obj[i].name = key

Get(obj, key) == obj[CHOOSE i \in 1..Len(obj) : obj[i].name = key].value

Put(obj, key, value) ==
    IF HasKey(obj, key)
    THEN [i \in 1..Len(obj) |->
            IF obj[i].name = key THEN [name |-> key, value |-> value] ELSE obj[i]]
    ELSE Append(obj, [name |-> key, value |-> value])

MatchNull == [kind |-> "null", params |-> <<>>]

MatchThrow == [kind |-> "throw", params |-> <<>>]

\* the loop of matchRoute over paramNames[i..]: group i + 1 of the match is
\* decoded and stored under the i-th name
RECURSIVE BindParams(_, _, _, _)
BindParams(names, caps, i, params) ==
    IF i > Len(names) THEN [kind |-> "params", params |-> params]
    ELSE LET value == decodeURIComponent(caps[i])
         IN  IF ~value.ok THEN MatchThrow
             ELSE BindParams(names, caps, i + 1, Put(params, names[i], value.v))

\* RouteHandler.matchRoute: null, the parameter map, or the URIError of
\* decodeURIComponent
matchRoute(parsedRoute, method, requestPath) ==
    IF parsedRoute.method # toUpperCase(method) THEN MatchNull
    ELSE LET match == RegExpExec(parsedRoute.pathRegex, 1, requestPath, 1)
         IN  IF ~match.m THEN MatchNull
             ELSE BindParams(parsedRoute.paramNames, match.caps, 1, <<>>)

FindNone == [kind |-> "none", route |-> None, params |-> <<>>]

FindThrow == [kind |-> "throw", route |-> None, params |-> <<>>]

\* RouteHandler.findMatchingRoute: the first route of the list that matches
RECURSIVE findMatchingRoute(_, _, _)
findMatchingRoute(rs, method, requestPath) ==
    IF rs = <<>> THEN FindNone
    ELSE LET params == matchRoute(Head(rs), method, requestPath)
         IN  CASE params.kind = "throw"  -> FindThrow
               [] params.kind = "params" ->
                    [kind |-> "match", route |-> Head(rs).originalRoute,
                     params |-> params.params]
               [] OTHER -> findMatchingRoute(Tail(rs), method, requestPath)

\* path.split('/')
RECURSIVE SplitSlash(_)
SplitSlash(path) ==
    LET e == RunEnd(path, 1, Class("param"))
    IN  IF e = Len(path) THEN <<path>>
        ELSE <<SubSeq(path, 1, e)>> \o SplitSlash(SubSeq(path, e + 2, Len(path)))

\* RouteHandler.extractPathSegments: path.split('/').filter(s => s.length > 0)
RECURSIVE NonEmpty(_)
NonEmpty(segs) ==
    IF segs = <<>> THEN <<>>
    ELSE (IF Head(segs) # "" THEN <<Head(segs)>> ELSE <<>>) \o NonEmpty(Tail(segs))

extractPathSegments(path) == NonEmpty(SplitSlash(path))

StaticSegments(path) ==
    Cardinality({i \in 1..Len(extractPathSegments(path)) :
                   ~startsWith(extractPathSegments(path)[i], ":")})

\* the comparator of sortRoutesBySpecificity: negative when a sorts before b
CompareSpecificity(a, b) ==
    IF Len(a.paramNames) # Len(b.paramNames)
    THEN Len(a.paramNames) - Len(b.paramNames)
    ELSE IF Len(extractPathSegments(a.path)) # Len(extractPathSegments(b.path))
         THEN Len(extractPathSegments(b.path)) - Len(extractPathSegments(a.path))
         ELSE StaticSegments(b.path) - StaticSegments(a.path)

InsertUnstable(sorted, r) ==
    LET before == {i \in 1..Len(sorted) : CompareSpecificity(sorted[i], r) < 0}
        k      == IF before = {} THEN 0 ELSE Max(before)
    IN  SubSeq(sorted, 1, k) \o <<r>> \o SubSeq(sorted, k + 1, Len(sorted))

\* Array.prototype.sort is stable: an element goes after every element that
\* does not compare greater than it
InsertStable(sorted, r) ==
    LET before == {i \in 1..Len(sorted) : CompareSpecificity(sorted[i], r) <= 0}
        k      == IF before = {} THEN 0 ELSE Max(before)
    IN  SubSeq(sorted, 1, k) \o <<r>> \o SubSeq(sorted, k + 1, Len(sorted))

RECURSIVE SortFrom(_, _)
SortFrom(sorted, rest) ==
    IF rest = <<>> THEN sorted ELSE SortFrom(InsertStable(sorted, Head(rest)), Tail(rest))

sortRoutesUnsorted(rs) == rs

\* RouteHandler.sortRoutesBySpecificity
sortRoutesBySpecificity(rs) == SortFrom(<<>>, rs)

\* RouteHandler.validateHttpMethod
validateHttpMethod(method) ==
    toUpperCase(method) \in {"GET", "POST", "PUT", "DELETE", "PATCH", "HEAD", "OPTIONS"}

(***************************************************************************)
(* ConfigParser.isValidRoute (src/utils/configParser.ts): a verb, one or   *)
(* more whitespace characters, then a path that starts with "/".           *)
(***************************************************************************)
isValidRoute(route) ==
    \E v \in {"GET", "POST", "PUT", "DELETE", "PATCH", "HEAD", "OPTIONS"} :
        /\ startsWith(toUpperCase(route), v)
        /\ LET e == RunEnd(route, Len(v) + 1, Class("space"))
           IN  /\ e > Len(v)
               /\ \E k \in (Len(v) + 1)..e : k < Len(route) /\ Ch(route, k + 1) = "/"

(***************************************************************************)
(* MockServer.parseRoutes (src/core/server.ts): compile every key of the   *)
(* config, drop the keys parseRoute throws on, sort by specificity.        *)
(***************************************************************************)
RECURSIVE CompileKeys(_)
CompileKeys(keys) ==
    IF keys = <<>> THEN <<>>
    ELSE LET r == parseRoute(Head(keys))
         IN  (IF r.ok THEN <<r>> ELSE <<>>) \o CompileKeys(Tail(keys))

parseRoutes(config) == sortRoutesBySpecificity(CompileKeys(config))

(***************************************************************************)
(* The route table of a running server: load, reload, resolve.             *)
(***************************************************************************)
MaxRoutes == 2

MaxReloads == 1

\* the route keys a config file may declare; every one passes isValidRoute,
\* since loadConfig exits the process on a key that does not
RouteDecls ==
    {d \in {"GET /users/:id", "GET /users/active", "GET /*", "GET /users",
            "GET /users/x:id", "GET /users/*", "POST /users", "GET /users/(x"} :
       isValidRoute(d)}

\* the sequences of at most n distinct elements of S
RECURSIVE DistinctSeqs(_, _)
DistinctSeqs(S, n) ==
    IF n = 0 THEN {<<>>}
    ELSE LET shorter == DistinctSeqs(S, n - 1)
         IN  shorter \cup
             {Append(q, d) : q \in {x \in shorter : Len(x) = n - 1},
                             d \in {e \in S : TRUE}}

NoRepeat(q) == \A i, j \in 1..Len(q) : i # j => q[i] # q[j]

\* the requests sent to the server: a method and a raw request path
Requests ==
    {[method |-> "GET", path |-> p] :
        p \in {"/users", "/users/active", "/users/42", "/users/x42", "/users/%zz", "/"}}
    \cup {[method |-> "POST", path |-> p] : p \in {"/users", "/users/42"}}

(***************************************************************************)
(* Values of the request and of templates.  A value carries its type t,    *)
(* its text s (strings), its number n (numbers), its truth b (booleans)    *)
(* and its items (the elements of a list, the name/value entries of a map).*)
(* A map has no entry for a field that is missing; reading it gives        *)
(* Undefined.                                                              *)
(***************************************************************************)
Str(x) == [t |-> "string", s |-> x, n |-> 0, b |-> FALSE, items |-> <<>>]

Num(k) == [t |-> "number", s |-> "", n |-> k, b |-> FALSE, items |-> <<>>]

Bool(x) == [t |-> "boolean", s |-> "", n |-> 0, b |-> x, items |-> <<>>]

Arr(xs) == [t |-> "array", s |-> "", n |-> 0, b |-> FALSE, items |-> xs]

Obj(es) == [t |-> "object", s |-> "", n |-> 0, b |-> FALSE, items |-> es]

Null == [t |-> "null", s |-> "", n |-> 0, b |-> FALSE, items |-> <<>>]

Undefined == [t |-> "undefined", s |-> "", n |-> 0, b |-> FALSE, items |-> <<>>]

\* what a call returns when it throws: the error in the place of the value
Thrown(message) == [t |-> "throw", s |-> message, n |-> 0, b |-> FALSE, items |-> <<>>]

Entry(name, value) == [name |-> name, value |-> value]

\* obj[key]
Lookup(obj, key) == IF HasKey(obj, key) THEN Get(obj, key) ELSE Undefined

NotParsed == [done |-> FALSE, r |-> ParseError]

NotSent == [method |-> None, path |-> None, via |-> "idle"]

MatchIdle == [kind |-> "idle", params |-> <<>>]

IdleCompile ==
    /\ decl = None /\ parsed = NotParsed /\ request = NotSent
    /\ idValue = None /\ matched = MatchIdle

NoEndpoint == [status |-> 0, condition |-> ""]

NoContext == [params |-> <<>>, query |-> <<>>, body |-> Undefined, headers |-> <<>>]

NotEvaluated == [done |-> FALSE, value |-> TRUE, status |-> 0]

IdleCond == endpoint = NoEndpoint /\ context = NoContext /\ condResult = NotEvaluated

IdleTpl == response = Undefined /\ expanded = Undefined /\ passes = 0

IdleDispatch ==
    /\ inbox = <<>> /\ calls = <<>> /\ clock = 0 /\ alive = TRUE /\ served = <<>>

NoRequest == [method |-> None, path |-> None, at |-> 0]

FindIdle == [kind |-> "idle", route |-> None, params |-> <<>>]

IdleRoute ==
    /\ mockConfig = <<>> /\ routes = <<>> /\ reloads = 0 /\ loadError = ""
    /\ lastReq = NoRequest /\ lastMatch = FindIdle

\* the constructor: loadConfig, which ends with parseRoutes
InitRoute ==
    /\ mockConfig \in {c \in DistinctSeqs(RouteDecls, MaxRoutes) : NoRepeat(c)}
    /\ routes = parseRoutes(mockConfig)
    /\ reloads = 0 /\ loadError = ""
    /\ lastReq = NoRequest
    /\ lastMatch = FindIdle
    /\ IdleCompile /\ IdleCond /\ IdleTpl /\ IdleDispatch

\* the watcher's change handler on an unchanged file: loadConfig again
Reload ==
    /\ reloads < MaxReloads
    /\ reloads' = reloads + 1
    /\ routes' = parseRoutes(mockConfig)
    /\ UNCHANGED <<mockConfig, loadError, lastReq, lastMatch>>
    /\ UNCHANGED <<compileVars, condVars, tplVars, dispatchVars>>

\* the catch-all handler's route resolution for one request
Resolve(method, requestPath) ==
    /\ lastReq' = [method |-> method, path |-> requestPath, at |-> reloads]
    /\ lastMatch' = findMatchingRoute(routes, method, requestPath)
    /\ UNCHANGED <<mockConfig, routes, reloads, loadError>>
    /\ UNCHANGED <<compileVars, condVars, tplVars, dispatchVars>>

NextRoute ==
    \/ Reload
    \/ \E r \in Requests : Resolve(r.method, r.path)

SpecRoute == InitRoute /\ [][NextRoute]_vars

(***************************************************************************)
(* Route precedence.                                                       *)
(***************************************************************************)
\* the places in the config of the declared routes that match the request
Candidates(req) ==
    {i \in 1..Len(mockConfig) :
       /\ parseRoute(mockConfig[i]).ok
       /\ matchRoute(parseRoute(mockConfig[i]), req.method, req.path).kind # "null"}

\* a ranks strictly before b: fewer path parameters, then more path segments,
\* then more literal segments
RankBetter(a, b) ==
    LET pa == Len(a.paramNames)
        pb == Len(b.paramNames)
        sa == Len(extractPathSegments(a.path))
        sb == Len(extractPathSegments(b.path))
    IN  \/ pa < pb
        \/ pa = pb /\ sa > sb
        \/ pa = pb /\ sa = sb /\ StaticSegments(a.path) > StaticSegments(b.path)

DeclaredAt(route) == CHOOSE i \in 1..Len(mockConfig) : mockConfig[i] = route

Declares(route) == \E i \in 1..Len(mockConfig) : mockConfig[i] = route

\* C1: the route resolved for a request is one of the declared routes that match
\* it, and no declared route that matches it ranks strictly before it under
\* (fewer parameters, more segments, more literal segments); with "GET /users/:id"
\* and "GET /users/active" declared, GET /users/active never resolves to the
\* parameterized route, and resolves to "GET /users/active" when these two are
\* the table.
C1_RoutePrecedence ==
    lastMatch.kind = "match" =>
        /\ \E i \in Candidates(lastReq) : mockConfig[i] = lastMatch.route
        /\ \A i \in Candidates(lastReq) :
             ~RankBetter(parseRoute(mockConfig[i]), parseRoute(lastMatch.route))
        /\ ( /\ Declares("GET /users/:id") /\ Declares("GET /users/active")
             /\ lastReq.method = "GET" /\ lastReq.path = "/users/active" )
           => /\ lastMatch.route # "GET /users/:id"
              /\ Len(mockConfig) = 2 => lastMatch.route = "GET /users/active"

\* the parameterized route is declared first, and the literal one is resolved
C1_Witness ==
    /\ mockConfig = <<"GET /users/:id", "GET /users/active">>
    /\ lastReq.method = "GET" /\ lastReq.path = "/users/active"
    /\ lastMatch.kind = "match" /\ lastMatch.route = "GET /users/active"

\* C2: among the matching routes that tie with the resolved one on all three
\* criteria, the resolved one is declared first; and a resolution made before any
\* number of reloads of the unchanged config is the resolution the rebuilt table
\* gives for the same request: same route, same parameters.
C2_TieBreakStable ==
    /\ lastMatch.kind = "match" =>
         \A i \in Candidates(lastReq) :
            ( /\ ~RankBetter(parseRoute(mockConfig[i]), parseRoute(lastMatch.route))
              /\ ~RankBetter(parseRoute(lastMatch.route), parseRoute(mockConfig[i])) )
            => DeclaredAt(lastMatch.route) <= i
    /\ lastMatch.kind # "idle" =>
         findMatchingRoute(routes, lastReq.method, lastReq.path) = lastMatch

\* the wildcard route and the literal route tie, the literal one is declared
\* first and resolved, and the table has been rebuilt since
C2_Witness ==
    /\ mockConfig = <<"GET /users", "GET /*">>
    /\ lastReq.method = "GET" /\ lastReq.path = "/users"
    /\ lastMatch.kind = "match" /\ lastMatch.route = "GET /users"
    /\ lastReq.at < reloads

(***************************************************************************)
(* parseRoute and matchRoute on one declaration.                           *)
(***************************************************************************)
MaxSegs == 2

\* the segments declared paths are made of: literals (with and without
\* characters that a regular expression reads as operators), parameters, the
\* wildcard
PatSegs == {"users", ":id", ":n", "*", "a.b", "a+b", "(x"}

\* the segments request paths are made of
ReqSegs == {"users", "42", "a.b", "axb", "a+b", "aab"}

\* the texts put in the place of ":id": percent-encoded values
IdValues == {"42", "%41", "a%20b", "a%2Fb"}

\* the texts put in the place of "*"
WildTexts == {"w", "w/x"}

RECURSIVE PathsOfLen(_, _)
PathsOfLen(segs, n) ==
    IF n = 0 THEN {""}
    ELSE {p \o "/" \o g : p \in PathsOfLen(segs, n - 1), g \in segs}

PathsUpTo(segs, n) == UNION {PathsOfLen(segs, k) : k \in 1..n}

DeclMethods == {"GET", "post", "FETCH", ""}

\* the verb and the path are set apart by one blank, or by two (a key that
\* isValidRoute accepts as well)
Declarations ==
    {m \o " " \o p : m \in DeclMethods,
                     p \in PathsUpTo(PatSegs, MaxSegs) \cup {"/", "x", ""}}
    \cup {"GET  /users", "GET  /users/:id"}

RECURSIVE JoinSlash(_)
JoinSlash(segs) ==
    IF Len(segs) = 1 THEN segs[1] ELSE segs[1] \o "/" \o JoinSlash(Tail(segs))

\* the raw text a request carries in the place of the parameter ":name"
OwnText(name, v) == IF name = "id" THEN v ELSE "v" \o name

\* the concrete path of a pattern: v for ":id", its own text for every other
\* ":name", w for "*"
Concretize(path, v, w) ==
    LET segs == SplitSlash(path)
    IN  JoinSlash([i \in 1..Len(segs) |->
                     IF startsWith(segs[i], ":") /\ Len(segs[i]) > 1
                     THEN OwnText(SubSeq(segs[i], 2, Len(segs[i])), v)
                     ELSE IF segs[i] = "*" THEN w ELSE segs[i]])

InitCompile ==
    /\ decl \in Declarations
    /\ parsed = NotParsed
    /\ request = NotSent
    /\ idValue = None
    /\ matched = MatchIdle
    /\ IdleRoute /\ IdleCond /\ IdleTpl /\ IdleDispatch

\* RouteHandler.parseRoute(decl)
Compile ==
    /\ ~parsed.done
    /\ parsed' = [done |-> TRUE, r |-> parseRoute(decl)]
    /\ UNCHANGED <<decl, request, idValue, matched>>
    /\ UNCHANGED <<routeVars, condVars, tplVars, dispatchVars>>

Send(method, path, via) ==
    /\ parsed.done /\ parsed.r.ok
    /\ request.via = "idle"
    /\ request' = [method |-> method, path |-> path, via |-> via]
    /\ matched' = matchRoute(parsed.r, method, path)
    /\ UNCHANGED <<decl, parsed>>
    /\ UNCHANGED <<routeVars, condVars, tplVars, dispatchVars>>

\* matchRoute with the declaration's own verb and exactly its path
MatchLiteral ==
    /\ Send(SplitMethod(decl), parsed.r.path, "literal")
    /\ UNCHANGED idValue

\* matchRoute with the concrete path of the declared pattern
MatchSubstituted ==
    \E v \in IdValues, w \in WildTexts :
        /\ \E i \in 1..Len(SplitSlash(parsed.r.path)) : SplitSlash(parsed.r.path)[i] = ":id"
        /\ Send(SplitMethod(decl), Concretize(parsed.r.path, v, w), "subst")
        /\ idValue' = v

\* matchRoute with any request path
MatchPath ==
    \E p \in PathsUpTo(ReqSegs, MaxSegs) :
        /\ Send(SplitMethod(decl), p, "path")
        /\ UNCHANGED idValue

NextCompile == Compile \/ MatchLiteral \/ MatchSubstituted \/ MatchPath

SpecCompile == InitCompile /\ [][NextCompile]_vars

(***************************************************************************)
(* Compile and match: round trip, binding, whole-path matching, rejection. *)
(***************************************************************************)
Verbs == {"GET", "POST", "PUT", "DELETE", "PATCH", "HEAD", "OPTIONS"}

\* the declaration is a recognized verb (in any case), whitespace, and a path
\* that begins with "/"
RecognizedDeclaration(d) ==
    \E k \in 1..Len(d) :
        /\ toUpperCase(SubSeq(d, 1, k)) \in Verbs
        /\ \E e \in (k + 1)..(Len(d) - 1) :
             /\ \A i \in (k + 1)..e : Ch(d, i) = " " \/ Ch(d, i) = "\t"
             /\ Ch(d, e + 1) = "/"

DeclaredPath(d) ==
    SubSeq(d, Min({i \in 1..Len(d) : Ch(d, i) = "/"}), Len(d))

\* C3: for a declaration with a recognized verb and a path with no ":" and no
\* "*", matchRoute with the same verb and exactly that path returns a match
\* with an empty parameter map.
C3_LiteralRoundTrip ==
    ( /\ request.via = "literal"
      /\ RecognizedDeclaration(decl)
      /\ ~InStr(":", DeclaredPath(decl)) /\ ~InStr("*", DeclaredPath(decl)) )
    => matched.kind = "params" /\ matched.params = <<>>

PlainSegment(g) ==
    \A i \in 1..Len(g) : AtomOk(Class("word"), Ch(g, i))

\* the places of the ":name" segments of a path
ParamPlaces(segs) == {i \in 1..Len(segs) : startsWith(segs[i], ":") /\ Len(segs[i]) > 1}

\* C4: for a declared pattern made of plain literal segments, ":id", other
\* ":name" segments and "*", the concrete path with a percent-encoded value in
\* the place of ":id" resolves with params.id the decoded value, and every other
\* ":name" bound to the decoded text of its own segment.
C4_ParameterBinding ==
    LET segs == SplitSlash(DeclaredPath(decl))
    IN  ( /\ request.via = "subst"
          /\ RecognizedDeclaration(decl)
          /\ \A i \in 1..Len(segs) :
                i \in ParamPlaces(segs) \/ segs[i] = "*" \/ PlainSegment(segs[i]) )
        => /\ matched.kind = "params"
           /\ \A i \in ParamPlaces(segs) :
                LET name == SubSeq(segs[i], 2, Len(segs[i]))
                IN  /\ HasKey(matched.params, name)
                    /\ Get(matched.params, name)
                         = decodeURIComponent(OwnText(name, idValue)).v

\* C5: a compiled route with no "*" matches a request path only if both have
\* the same number of "/"-separated segments and every literal (non-":")
\* segment of the pattern equals the request's segment at its place.
C5_WholePathOnly ==
    LET pat == SplitSlash(parsed.r.path)
        req == SplitSlash(request.path)
    IN  ( /\ request.via # "idle"
          /\ ~InStr("*", parsed.r.path)
          /\ matched.kind # "null" )
        => /\ Len(pat) = Len(req)
           /\ \A i \in 1..Len(pat) : ~startsWith(pat[i], ":") => pat[i] = req[i]

\* C6: parseRoute throws on every declaration that is not a recognized verb,
\* whitespace and a path beginning with "/".
C6_RejectsMalformed ==
    (parsed.done /\ ~RecognizedDeclaration(decl)) => ~parsed.r.ok

(***************************************************************************)
(* The operations of the language that the dispatcher and TemplateEngine   *)
(* rely on.  Numbers are decimal.  Hexadecimal and exponent literals,      *)
(* Infinity and the backslash are outside the alphabet of the texts below. *)
(***************************************************************************)
Quote == "\""

\* parseInt of a string of decimal digits
RECURSIVE parseInt(_)
parseInt(ds) ==
    IF ds = "" THEN 0
    ELSE 10 * parseInt(SubSeq(ds, 1, Len(ds) - 1))
         + (CHOOSE k \in 0..9 : Ch(Digits, k + 1) = Ch(ds, Len(ds)))

LowerCh(c) ==
    IF InStr(c, UpperLetters)
    THEN Ch(LowerLetters, CHOOSE i \in 1..Len(UpperLetters) : Ch(UpperLetters, i) = c)
    ELSE c

RECURSIVE toLowerCase(_)
toLowerCase(s) ==
    IF s = "" THEN "" ELSE LowerCh(Ch(s, 1)) \o toLowerCase(SubSeq(s, 2, Len(s)))

\* String.prototype.trim
trim(s) ==
    LET keep == {i \in 1..Len(s) : ~AtomOk(Class("blank"), Ch(s, i))}
    IN  IF keep = {} THEN "" ELSE SubSeq(s, Min(keep), Max(keep))

\* String.prototype.split on a one-character separator
RECURSIVE split(_, _)
split(s, c) ==
    LET at == {i \in 1..Len(s) : Ch(s, i) = c}
    IN  IF at = {} THEN <<s>>
        ELSE <<SubSeq(s, 1, Min(at) - 1)>> \o split(SubSeq(s, Min(at) + 1, Len(s)), c)

AllIn(s, class) == \A i \in 1..Len(s) : AtomOk(Class(class), Ch(s, i))

\* String(n) for a natural number and for an integer
RECURSIVE NatText(_)
NatText(n) ==
    IF n < 10 THEN Ch(Digits, n + 1) ELSE NatText(n \div 10) \o Ch(Digits, (n % 10) + 1)

IntText(n) == IF n < 0 THEN "-" \o NatText(0 - n) ELSE NatText(n)

\* digits without their trailing zeros
RECURSIVE DropZeros(_)
DropZeros(ds) ==
    IF ds # "" /\ Ch(ds, Len(ds)) = "0" THEN DropZeros(SubSeq(ds, 1, Len(ds) - 1)) ELSE ds

NaN == [nan |-> TRUE, v |-> Undefined]

\* digits without their leading zeros
RECURSIVE DropLeadingZeros(_)
DropLeadingZeros(ds) ==
    IF ds # "" /\ Ch(ds, 1) = "0" THEN DropLeadingZeros(SubSeq(ds, 2, Len(ds))) ELSE ds

\* the number written <sign><whole>.<frac>; an integer of at most nine
\* digits is held in n, any other number carries its text in s
Decimal(negative, whole, frac) ==
    LET w == DropLeadingZeros(whole)
        f == DropZeros(frac)
        k == IF Len(w) > 9 THEN 0 ELSE parseInt(w)
    IN  IF f = "" /\ Len(w) <= 9 THEN Num(IF negative THEN 0 - k ELSE k)
        ELSE [Num(IF negative THEN 0 - k ELSE k) EXCEPT
                !.s = (IF negative THEN "-" ELSE "") \o (IF w = "" THEN "0" ELSE w)
                      \o (IF f = "" THEN "" ELSE "." \o f)]

\* Number(text): white space is trimmed, the empty text is 0, a signed decimal
\* literal is its value, anything else is NaN
Number(text) ==
    LET t     == trim(text)
        neg   == startsWith(t, "-")
        u     == IF startsWith(t, "-") \/ startsWith(t, "+") THEN SubSeq(t, 2, Len(t)) ELSE t
        parts == split(u, ".")
        whole == parts[1]
        frac  == IF Len(parts) = 2 THEN parts[2] ELSE ""
    IN  IF t = "" THEN [nan |-> FALSE, v |-> Num(0)]
        ELSE IF /\ Len(parts) <= 2 /\ whole \o frac # ""
                /\ AllIn(whole, "digit") /\ AllIn(frac, "digit")
             THEN [nan |-> FALSE, v |-> Decimal(neg, whole, frac)]
             ELSE NaN

\* parseInt(text): the longest signed run of digits the trimmed text begins with
parseIntJS(text) ==
    LET t   == trim(text)
        neg == startsWith(t, "-")
        u   == IF startsWith(t, "-") \/ startsWith(t, "+") THEN SubSeq(t, 2, Len(t)) ELSE t
        e   == RunEnd(u, 1, Class("digit"))
    IN  IF e = 0 THEN [nan |-> TRUE, n |-> 0]
        ELSE [nan |-> FALSE,
              n |-> IF neg THEN 0 - parseInt(SubSeq(u, 1, e)) ELSE parseInt(SubSeq(u, 1, e))]

\* the truth of a value in a || b
Truthy(v) ==
    CASE v.t = "string"  -> v.s # ""
      [] v.t = "number"  -> v.n # 0 \/ v.s # ""
      [] v.t = "boolean" -> v.b
      [] v.t = "array"   -> TRUE
      [] v.t = "object"  -> TRUE
      [] OTHER           -> FALSE

OrEmpty(v) == IF Truthy(v) THEN v ELSE Str("")

\* String(v); the elements of a list are joined by commas, null and undefined
\* elements being empty
RECURSIVE String(_)
RECURSIVE JoinItems(_)
String(v) ==
    CASE v.t = "string"    -> v.s
      [] v.t = "number"    -> IF v.s # "" THEN v.s ELSE IntText(v.n)
      [] v.t = "boolean"   -> IF v.b THEN "true" ELSE "false"
      [] v.t = "null"      -> "null"
      [] v.t = "undefined" -> "undefined"
      [] v.t = "array"     -> JoinItems(v.items)
      [] v.t = "object"    -> "[object Object]"

JoinItems(items) ==
    IF items = <<>> THEN ""
    ELSE (IF Head(items).t \in {"null", "undefined"} THEN "" ELSE String(Head(items)))
         \o (IF Len(items) = 1 THEN "" ELSE "," \o JoinItems(Tail(items)))

\* String(v) throws a TypeError: a map with a toString entry of its own has
\* no callable toString, and the valueOf it inherits returns the map itself;
\* a list throws when one of its elements does
RECURSIVE StringThrows(_)
StringThrows(v) ==
    \/ v.t = "object" /\ HasKey(v.items, "toString")
    \/ v.t = "array" /\ \E i \in 1..Len(v.items) : StringThrows(v.items[i])

\* the text p stands at place j of s
At(s, j, p) == j + Len(p) - 1 <= Len(s) /\ SubSeq(s, j, j + Len(p) - 1) = p

\* JSON.parse on texts without escapes and exponents.  Each step returns the
\* value and the place after it.
JSONFail == [ok |-> FALSE, v |-> Undefined, next |-> 0]

SkipBlank(s, i) == RunEnd(s, i, Class("blank")) + 1

JSONNumber(s, j) ==
    LET neg     == Ch(s, j) = "-"
        a       == IF neg THEN j + 1 ELSE j
        e       == RunEnd(s, a, Class("digit"))
        whole   == SubSeq(s, a, e)
        hasFrac == e + 1 <= Len(s) /\ Ch(s, e + 1) = "."
        f       == IF hasFrac THEN RunEnd(s, e + 2, Class("digit")) ELSE e
        frac    == IF hasFrac THEN SubSeq(s, e + 2, f) ELSE ""
    IN  IF e < a \/ (Len(whole) > 1 /\ Ch(whole, 1) = "0") \/ (hasFrac /\ f < e + 2)
        THEN JSONFail
        ELSE [ok |-> TRUE, v |-> Decimal(neg, whole, frac), next |-> f + 1]

JSONString(s, j) ==
    LET quotes == {k \in (j + 1)..Len(s) : Ch(s, k) = Quote}
        e      == IF quotes = {} THEN 0 ELSE Min(quotes)
    IN  IF e = 0 \/ \E k \in (j + 1)..(e - 1) : Ch(s, k) \in {"\t", "\n", "\r", "\\"}
        THEN JSONFail
        ELSE [ok |-> TRUE, v |-> Str(SubSeq(s, j + 1, e - 1)), next |-> e + 1]

RECURSIVE JSONValue(_, _)
RECURSIVE JSONElements(_, _, _)
RECURSIVE JSONMembers(_, _, _)
JSONValue(s, i) ==
    LET j == SkipBlank(s, i)
        k == SkipBlank(s, j + 1)
    IN  IF j > Len(s) THEN JSONFail
        ELSE CASE Ch(s, j) = "{" ->
                    IF k <= Len(s) /\ Ch(s, k) = "}"
                    THEN [ok |-> TRUE, v |-> Obj(<<>>), next |-> k + 1]
                    ELSE JSONMembers(s, k, <<>>)
               [] Ch(s, j) = "[" ->
                    IF k <= Len(s) /\ Ch(s, k) = "]"
                    THEN [ok |-> TRUE, v |-> Arr(<<>>), next |-> k + 1]
                    ELSE JSONElements(s, k, <<>>)
               [] Ch(s, j) = Quote -> JSONString(s, j)
               [] Ch(s, j) = "-" \/ InStr(Ch(s, j), Digits) -> JSONNumber(s, j)
               [] At(s, j, "true")  -> [ok |-> TRUE, v |-> Bool(TRUE), next |-> j + 4]
               [] At(s, j, "false") -> [ok |-> TRUE, v |-> Bool(FALSE), next |-> j + 5]
               [] At(s, j, "null")  -> [ok |-> TRUE, v |-> Null, next |-> j + 4]
               [] OTHER -> JSONFail

JSONElements(s, i, acc) ==
    LET r == JSONValue(s, i)
        k == SkipBlank(s, r.next)
    IN  IF ~r.ok THEN JSONFail
        ELSE IF k > Len(s) THEN JSONFail
        ELSE IF Ch(s, k) = "," THEN JSONElements(s, k + 1, Append(acc, r.v))
        ELSE IF Ch(s, k) = "]"
             THEN [ok |-> TRUE, v |-> Arr(Append(acc, r.v)), next |-> k + 1]
        ELSE JSONFail

JSONMembers(s, i, acc) ==
    LET j   == SkipBlank(s, i)
        key == JSONString(s, j)
        c   == SkipBlank(s, key.next)
        r   == JSONValue(s, c + 1)
        k   == SkipBlank(s, r.next)
    IN  IF j > Len(s) THEN JSONFail
        ELSE IF Ch(s, j) # Quote THEN JSONFail
        ELSE IF ~key.ok THEN JSONFail
        ELSE IF c > Len(s) THEN JSONFail
        ELSE IF Ch(s, c) # ":" THEN JSONFail
        ELSE IF ~r.ok THEN JSONFail
        ELSE IF k > Len(s) THEN JSONFail
        ELSE IF Ch(s, k) = "," THEN JSONMembers(s, k + 1, Put(acc, key.v.s, r.v))
        ELSE IF Ch(s, k) = "}"
             THEN [ok |-> TRUE, v |-> Obj(Put(acc, key.v.s, r.v)), next |-> k + 1]
        ELSE JSONFail

\* JSON.parse: ok is false when it throws
JSONparse(text) ==
    LET r == JSONValue(text, 1)
    IN  IF r.ok /\ SkipBlank(text, r.next) > Len(text)
        THEN [ok |-> TRUE, v |-> r.v]
        ELSE [ok |-> FALSE, v |-> Undefined]

(***************************************************************************)
(* MockServer.evaluateCondition and simpleConditionEval                    *)
(* (src/core/server.ts).                                                   *)
(***************************************************************************)
\* the replacement of one "params.<name>": the value in double quotes when it
\* is a string, else String(value)
ParamText(ctx, name) ==
    IF HasKey(ctx.params, name) THEN Quote \o Get(ctx.params, name) \o Quote
    ELSE "undefined"

\* the replacement of one "query.<name>": the first element of a list, the
\* value itself otherwise; in double quotes when it is a string, else
\* String(queryValue || 'undefined')
QueryText(ctx, name) ==
    LET value      == Lookup(ctx.query, name)
        queryValue == IF value.t = "array"
                      THEN (IF value.items = <<>> THEN Undefined ELSE value.items[1])
                      ELSE value
    IN  IF queryValue.t = "string" THEN Quote \o queryValue.s \o Quote
        ELSE IF Truthy(queryValue) THEN String(queryValue)
        ELSE "undefined"

\* s.replace(/params\.(\w+)/g, ...) and s.replace(/query\.(\w+)/g, ...): from
\* place i on, every leftmost "<prefix><word characters>" is replaced
RECURSIVE ReplaceRefs(_, _, _, _)
ReplaceRefs(s, i, prefix, ctx) ==
    IF i > Len(s) THEN ""
    ELSE IF /\ i + Len(prefix) <= Len(s)
            /\ SubSeq(s, i, i + Len(prefix) - 1) = prefix
            /\ AtomOk(Class("word"), Ch(s, i + Len(prefix)))
         THEN LET e    == RunEnd(s, i + Len(prefix), Class("word"))
                  name == SubSeq(s, i + Len(prefix), e)
              IN  (IF prefix = "params." THEN ParamText(ctx, name)
                                          ELSE QueryText(ctx, name))
                  \o ReplaceRefs(s, e + 1, prefix, ctx)
         ELSE Ch(s, i) \o ReplaceRefs(s, i + 1, prefix, ctx)

\* processedCondition of evaluateCondition
ProcessedCondition(cond, ctx) ==
    ReplaceRefs(ReplaceRefs(cond, 1, "params.", ctx), 1, "query.", ctx)

\* /^[a-zA-Z0-9\s"'._><=!&|()]+$/
AllowedChar(c) ==
    \/ InStr(c, LowerLetters) \/ InStr(c, UpperLetters) \/ InStr(c, Digits)
    \/ InStr(c, " \t\n\"'._><=!&|()")

AllowedSyntax(text) == text # "" /\ \A i \in 1..Len(text) : AllowedChar(Ch(text, i))

\* the groups of /^"([^"]*)" <op> "([^"]*)"$/, op being === or !==
QuotedPair(text, op) ==
    LET quotes == {i \in 2..Len(text) : Ch(text, i) = Quote}
        q2     == IF quotes = {} THEN 0 ELSE Min(quotes)
        mid    == Quote \o " " \o op \o " " \o Quote
        from   == q2 + Len(mid)
    IN  IF /\ Len(text) >= 2 /\ Ch(text, 1) = Quote /\ q2 > 0
           /\ from <= Len(text)
           /\ SubSeq(text, q2, from - 1) = mid
           /\ Min({i \in from..Len(text) : Ch(text, i) = Quote}) = Len(text)
        THEN [m |-> TRUE, left |-> SubSeq(text, 2, q2 - 1),
              right |-> SubSeq(text, from, Len(text) - 1)]
        ELSE [m |-> FALSE, left |-> "", right |-> ""]

\* the groups of /^(\d+) ([><=]+) (\d+)$/
NumericTriple(text) ==
    LET e1 == RunEnd(text, 1, Class("digit"))
        e2 == RunEnd(text, e1 + 2, Class("compare"))
        e3 == RunEnd(text, e2 + 2, Class("digit"))
    IN  IF /\ e1 >= 1 /\ e1 + 1 <= Len(text) /\ Ch(text, e1 + 1) = " "
           /\ e2 >= e1 + 2 /\ e2 + 1 <= Len(text) /\ Ch(text, e2 + 1) = " "
           /\ e3 >= e2 + 2 /\ e3 = Len(text)
        THEN [m |-> TRUE, left |-> SubSeq(text, 1, e1),
              operator |-> SubSeq(text, e1 + 2, e2), right |-> SubSeq(text, e2 + 2, e3)]
        ELSE [m |-> FALSE, left |-> "", operator |-> "", right |-> ""]

simpleConditionEvalClosed(text) ==
    LET eq  == QuotedPair(text, "===")
        neq == QuotedPair(text, "!==")
        num == NumericTriple(text)
    IN  IF eq.m THEN eq.left = eq.right
        ELSE IF neq.m THEN neq.left # neq.right
        ELSE IF num.m
             THEN CASE num.operator = ">"  -> parseInt(num.left) > parseInt(num.right)
                    [] num.operator = "<"  -> parseInt(num.left) < parseInt(num.right)
                    [] num.operator = ">=" -> parseInt(num.left) >= parseInt(num.right)
                    [] num.operator = "<=" -> parseInt(num.left) <= parseInt(num.right)
                    [] num.operator = "==" -> parseInt(num.left) = parseInt(num.right)
                    [] OTHER -> FALSE
             ELSE FALSE

\* MockServer.simpleConditionEval
simpleConditionEval(text) ==
    LET eq  == QuotedPair(text, "===")
        neq == QuotedPair(text, "!==")
        num == NumericTriple(text)
    IN  IF eq.m THEN eq.left = eq.right
        ELSE IF neq.m THEN neq.left # neq.right
        ELSE IF num.m
             THEN CASE num.operator = ">"  -> parseInt(num.left) > parseInt(num.right)
                    [] num.operator = "<"  -> parseInt(num.left) < parseInt(num.right)
                    [] num.operator = ">=" -> parseInt(num.left) >= parseInt(num.right)
                    [] num.operator = "<=" -> parseInt(num.left) <= parseInt(num.right)
                    [] num.operator = "==" -> parseInt(num.left) = parseInt(num.right)
                    [] OTHER -> TRUE
             ELSE TRUE

\* a replacement of "query.<name>" throws: String(queryValue) of a value that
\* cannot be converted to a string
RECURSIVE QueryRefThrows(_, _, _)
QueryRefThrows(s, i, ctx) ==
    IF i > Len(s) THEN FALSE
    ELSE IF /\ i + 6 <= Len(s)
            /\ SubSeq(s, i, i + 5) = "query."
            /\ AtomOk(Class("word"), Ch(s, i + 6))
         THEN LET e          == RunEnd(s, i + 6, Class("word"))
                  value      == Lookup(ctx.query, SubSeq(s, i + 6, e))
                  queryValue == IF value.t = "array"
                                THEN (IF value.items = <<>> THEN Undefined
                                      ELSE value.items[1])
                                ELSE value
              IN  \/ StringThrows(queryValue)
                  \/ QueryRefThrows(s, e + 1, ctx)
         ELSE QueryRefThrows(s, i + 1, ctx)

\* MockServer.evaluateCondition: an error in it is caught and gives true
evaluateCondition(cond, ctx) ==
    IF QueryRefThrows(ReplaceRefs(cond, 1, "params.", ctx), 1, ctx) THEN TRUE
    ELSE IF ~AllowedSyntax(ProcessedCondition(cond, ctx)) THEN TRUE
    ELSE simpleConditionEval(ProcessedCondition(cond, ctx))

\* the condition gate of handleRequest: 404 when the endpoint has a condition
\* that evaluates to false, else the endpoint's status (200 when it has none)
GateStatus(ep, ctx) ==
    IF ep.condition # "" /\ ~evaluateCondition(ep.condition, ctx) THEN 404
    ELSE IF ep.status # 0 THEN ep.status ELSE 200

(***************************************************************************)
(* The condition gate of one request.                                      *)
(***************************************************************************)
MaxValueLen == 2

\* the characters request values are made of: a digit, a letter, a character
\* outside the allowed set of evaluateCondition, the double quote
ValueChars == {"5", "a", "-", Quote}

RECURSIVE StringsOfLen(_, _)
StringsOfLen(chars, n) ==
    IF n = 0 THEN {""}
    ELSE {u \o c : u \in StringsOfLen(chars, n - 1), c \in chars}

\* the values of path parameters, query parameters and body fields
Values ==
    {"premium", "secret", "x", "42", "10"}
    \cup UNION {StringsOfLen(ValueChars, k) : k \in 0..MaxValueLen}

\* the endpoints of the README and of the comments of evaluateCondition, the
\* double-quoted forms, comparisons of literals, and unsupported forms
Endpoints ==
    {[status |-> 401, condition |-> "body.password !== 'secret'"]}
    \cup {[status |-> 200, condition |-> c] :
            c \in {"query.type === 'premium'", "query.type === \"premium\"",
                   "query.type !== \"premium\"", "params.id === \"42\"",
                   "params.id > 10", "query.limit > 10", "10 > 5", "5 > 10",
                   "5 >= 10", "10 <= 5", "10 == 5", "5 == 5", "10 < 5", "5 = 10",
                   "query.type", "!headers.authorization",
                   "query.type === \"premium\" && params.id === \"42\""}}
    \cup {[status |-> 0, condition |-> c] : c \in {"", "query.type === \"premium\""}}

Password(pw) == Obj(<<Entry("password", Str(pw))>>)

Ctx(id, query, body) ==
    [params |-> <<Entry("id", id)>>, query |-> query, body |-> body, headers |-> <<>>]

\* request contexts: one of the path parameter, the query parameter and the
\* body field varies at a time
Contexts ==
    {Ctx(v, <<Entry("type", Str("premium"))>>, Password("secret")) : v \in Values}
    \cup {Ctx("42", <<Entry("type", Str(v))>>, Password("secret")) : v \in Values}
    \cup {Ctx("42", <<Entry("type", Arr(<<Str(v), Str("premium")>>))>>, Undefined) :
            v \in {"premium", "x"}}
    \cup {Ctx("42", <<Entry("type", Obj(<<Entry("a", Str("premium"))>>))>>, Undefined)}
    \cup {Ctx("42", <<>>, b) : b \in {Undefined, Password("secret"), Password("x")}}

InitCond ==
    /\ endpoint \in Endpoints
    /\ context \in Contexts
    /\ condResult = NotEvaluated
    /\ IdleRoute /\ IdleCompile /\ IdleTpl /\ IdleDispatch

\* handleRequest up to the condition gate, and the status the request ends with
CheckCondition ==
    /\ ~condResult.done
    /\ condResult' =
         [done |-> TRUE,
          value |-> IF endpoint.condition = "" THEN TRUE
                    ELSE evaluateCondition(endpoint.condition, context),
          status |-> GateStatus(endpoint, context)]
    /\ UNCHANGED <<endpoint, context>>
    /\ UNCHANGED <<routeVars, compileVars, tplVars, dispatchVars>>

NextCond == CheckCondition

SpecCond == InitCond /\ [][NextCond]_vars

BodyPassword == Lookup(context.body.items, "password")

QueryType == Lookup(context.query, "type")

\* C7: with condition "body.password !== 'secret'", the condition is false and
\* the request gets 404 when the body's password is "secret"; it is true and the
\* endpoint's 401 is served when the password is "x".
C7_BodyCondition ==
    (condResult.done /\ endpoint.condition = "body.password !== 'secret'") =>
        /\ BodyPassword = Str("secret") =>
             condResult.value = FALSE /\ condResult.status = 404
        /\ BodyPassword = Str("x") =>
             condResult.value = TRUE /\ condResult.status = 401

\* C8: with condition "query.type === 'premium'", the endpoint's response is
\* served if and only if the query parameter type is "premium"; any other or
\* absent type gets 404.
C8_QueryCondition ==
    ( /\ condResult.done /\ endpoint.condition = "query.type === 'premium'"
      /\ QueryType.t \in {"string", "undefined"} ) =>
        IF QueryType = Str("premium")
        THEN condResult.status = endpoint.status
        ELSE condResult.status = 404

IsQuoted(u) ==
    /\ Len(u) >= 2 /\ Ch(u, 1) = Quote /\ Ch(u, Len(u)) = Quote
    /\ \A i \in 2..(Len(u) - 1) : Ch(u, i) # Quote

AllDigits(u) == u # "" /\ \A i \in 1..Len(u) : InStr(Ch(u, i), Digits)

\* the text is "a" === "b", "a" !== "b", or <digits> <op> <digits> with op one
\* of >, <, >=, <=, ==
SupportedShape(text) ==
    \E i, j \in 1..Len(text) :
        /\ i < j
        /\ \/ /\ IsQuoted(SubSeq(text, 1, i))
              /\ SubSeq(text, i + 1, j) \in {" === ", " !== "}
              /\ IsQuoted(SubSeq(text, j + 1, Len(text)))
           \/ /\ AllDigits(SubSeq(text, 1, i))
              /\ SubSeq(text, i + 1, j) \in {" > ", " < ", " >= ", " <= ", " == "}
              /\ AllDigits(SubSeq(text, j + 1, Len(text)))

\* C9: when the condition text after substitution is not one of the supported
\* shapes, or holds a character outside the allowed set, evaluateCondition
\* returns true and the request proceeds to the endpoint's response.
C9_FailOpen ==
    (condResult.done /\ endpoint.condition # "") =>
        LET text == ProcessedCondition(endpoint.condition, context)
        IN  (~SupportedShape(text) \/ \E i \in 1..Len(text) : ~AllowedChar(Ch(text, i)))
            => /\ condResult.value = TRUE
               /\ condResult.status = (IF endpoint.status # 0 THEN endpoint.status ELSE 200)

\* an equality of two different quoted texts, one of them holding a character
\* outside the allowed set: the condition passes
C9_Witness ==
    /\ condResult.done
    /\ endpoint.condition = "query.type === \"premium\""
    /\ QueryType = Str("a-")
    /\ ProcessedCondition(endpoint.condition, context) = "\"a-\" === \"premium\""
    /\ condResult.value = TRUE /\ condResult.status = 200

(***************************************************************************)
(* TemplateEngine (src/utils/templateEngine.ts).                           *)
(*                                                                         *)
(* The generators (faker, random, date) are not functions of their         *)
(* arguments: what they return in one evaluation is a draw g, a record of  *)
(* the word, the number and the flag they produce; an invocation with      *)
(* arguments fails when g.flag is false.  An expansion is given a list of  *)
(* draws, the k-th placeholder of a string using the k-th draw.            *)
(***************************************************************************)
\* the functions of the faker object, by module
FakerFunctions ==
    {<<"person", "firstName">>, <<"person", "fullName">>, <<"internet", "email">>,
     <<"string", "uuid">>, <<"number", "int">>, <<"datatype", "boolean">>}

FakerCall(f, g) ==
    IF f = <<"number", "int">> THEN IntText(g.pick)
    ELSE IF f = <<"datatype", "boolean">> THEN (IF g.flag THEN "true" ELSE "false")
    ELSE IF f = <<"string", "uuid">>
         THEN "0000000" \o NatText(g.pick % 10) \o "-0000-4000-8000-000000000000"
    ELSE g.word

FakerRoot == [k |-> "root", m |-> "", f |-> "", text |-> ""]

FakerThrow == [k |-> "throw", m |-> "", f |-> "", text |-> ""]

\* one turn of the loop of evaluateFakerExpression: result is the faker object
\* (root), one of its modules, one of their functions, or a returned text
FakerStep(result, part, g) ==
    LET funcName == split(part, "(")[1]
    IN  IF includes(part, "(")
        THEN IF result.k = "module" /\ <<result.m, funcName>> \in FakerFunctions
             THEN IF g.flag
                  THEN [k |-> "text", m |-> "", f |-> "",
                        text |-> FakerCall(<<result.m, funcName>>, g)]
                  ELSE FakerThrow
             ELSE FakerThrow
        ELSE IF result.k = "root" /\ \E fn \in FakerFunctions : fn[1] = part
             THEN [k |-> "module", m |-> part, f |-> "", text |-> ""]
        ELSE IF result.k = "module" /\ <<result.m, part>> \in FakerFunctions
             THEN [k |-> "function", m |-> result.m, f |-> part, text |-> ""]
        ELSE IF result.k = "text" /\ part = "length"
             THEN [k |-> "text", m |-> "", f |-> "", text |-> NatText(Len(result.text))]
        ELSE FakerThrow

RECURSIVE FakerWalk(_, _, _)
FakerWalk(result, parts, g) ==
    IF parts = <<>> \/ result.k = "throw" THEN result
    ELSE FakerWalk(FakerStep(result, Head(parts), g), Tail(parts), g)

\* TemplateEngine.evaluateFakerExpression
evaluateFakerExpression(expression, g) ==
    LET fakerPath == SubSeq(expression, 7, Len(expression))
        result    == FakerWalk(FakerRoot, split(fakerPath, "."), g)
    IN  CASE result.k = "throw"    -> "{{" \o expression \o "}}"
          [] result.k = "function" -> FakerCall(<<result.m, result.f>>, g)
          [] result.k = "text"     -> result.text
          [] OTHER                 -> "[object Object]"

\* TemplateEngine.evaluateRandomExpression
evaluateRandomExpression(expression, g) ==
    LET open       == {i \in 1..Len(expression) :
                         /\ At(expression, i, "random.number(")
                         /\ RunEnd(expression, i + 14, Class("arg")) >= i + 14
                         /\ RunEnd(expression, i + 14, Class("arg")) < Len(expression)}
        from       == Min(open) + 14
        argsString == SubSeq(expression, from, RunEnd(expression, from, Class("arg")))
        args       == split(argsString, ",")
        first      == parseIntJS(args[1])
        second     == IF Len(args) >= 2 THEN parseIntJS(args[2]) ELSE [nan |-> TRUE, n |-> 0]
        min        == IF first.nan \/ first.n = 0 THEN 0 ELSE first.n
        max        == IF second.nan \/ second.n = 0 THEN 100 ELSE second.n
    IN  IF expression = "random.uuid" THEN FakerCall(<<"string", "uuid">>, g)
        ELSE IF startsWith(expression, "random.number(") /\ open # {}
             THEN IF max < min THEN expression
                  ELSE IntText(min + (g.pick % (max - min + 1)))
        ELSE IF expression = "random.boolean" THEN FakerCall(<<"datatype", "boolean">>, g)
        ELSE expression

\* Date.prototype.toISOString and getTime of the instant a draw stands for
IsoText(g) == "2026-01-0" \o NatText(1 + (g.pick % 9)) \o "T00:00:00.000Z"

\* TemplateEngine.evaluateDateExpression
evaluateDateExpression(expression, g) ==
    CASE expression \in {"date.now", "date.past", "date.future", "date.recent"} -> IsoText(g)
      [] expression = "date.timestamp" -> "176722560000" \o NatText(g.pick % 10)
      [] OTHER -> expression

(***************************************************************************)
(* Buffers and base64 (Buffer.from, Buffer.prototype.toString).  A buffer  *)
(* is a list of bytes.                                                     *)
(***************************************************************************)
Base64Chars == "ABCDEFGHIJKLMNOPQRSTUVWXYZabcdefghijklmnopqrstuvwxyz0123456789+/"

\* the code of a character: printable ASCII and the line feed
CodeOf(c) ==
    IF c = "\n" THEN 10
    ELSE 31 + (CHOOSE i \in 1..Len(Printable) : Ch(Printable, i) = c)

\* Buffer.from(text): the bytes of a text of ASCII characters
BytesOf(text) == [i \in 1..Len(text) |-> CodeOf(Ch(text, i))]

\* the character that stands for a number of six bits
Sextet(k) == Ch(Base64Chars, k + 1)

\* the parts lo..hi of a list of texts or of lists, one after the other
RECURSIVE Flatten(_, _, _)
Flatten(parts, lo, hi) ==
    IF lo = hi THEN parts[lo]
    ELSE LET mid == (lo + hi) \div 2
         IN  Flatten(parts, lo, mid) \o Flatten(parts, mid + 1, hi)

\* the four characters of the k-th group of three bytes, padded with "="
\* where the buffer ends
Base64Group(bytes, k) ==
    LET i  == 3 * k - 2
        b1 == bytes[i]
        b2 == IF i + 1 <= Len(bytes) THEN bytes[i + 1] ELSE 0
        b3 == IF i + 2 <= Len(bytes) THEN bytes[i + 2] ELSE 0
    IN  Sextet(b1 \div 4)
        \o Sextet((b1 % 4) * 16 + (b2 \div 16))
        \o (IF i + 1 <= Len(bytes) THEN Sextet((b2 % 16) * 4 + (b3 \div 64)) ELSE "=")
        \o (IF i + 2 <= Len(bytes) THEN Sextet(b3 % 64) ELSE "=")

\* buffer.toString('base64')
Base64Encode(bytes) ==
    IF bytes = <<>> THEN ""
    ELSE LET groups == (Len(bytes) + 2) \div 3
         IN  Flatten([k \in 1..groups |-> Base64Group(bytes, k)], 1, groups)

\* the six bits of a character of the base64 or of the URL-safe alphabet, -1
\* for every other character
SextetOf(c) ==
    IF InStr(c, Base64Chars)
    THEN (CHOOSE i \in 1..Len(Base64Chars) : Ch(Base64Chars, i) = c) - 1
    ELSE IF c = "-" THEN 62 ELSE IF c = "_" THEN 63 ELSE -1

\* the sextets of a text up to its first "=", characters outside the
\* alphabet being skipped
SextetsOf(text) ==
    LET stops == {i \in 1..Len(text) : Ch(text, i) = "="}
        end   == IF stops = {} THEN Len(text)
                 ELSE (CHOOSE i \in stops : \A j \in stops : i <= j) - 1
    IN  IF end = 0 THEN <<>>
        ELSE Flatten([i \in 1..end |->
                        IF SextetOf(Ch(text, i)) >= 0
                        THEN <<SextetOf(Ch(text, i))>> ELSE <<>>], 1, end)

\* the bytes of the k-th group of four sextets: three of them, or as many as
\* the sextets left at the end give whole
BytesOfGroup(x, k) ==
    LET i == 4 * k - 3
    IN  (IF i + 1 <= Len(x) THEN <<x[i] * 4 + (x[i + 1] \div 16)>> ELSE <<>>)
        \o (IF i + 2 <= Len(x) THEN <<(x[i + 1] % 16) * 16 + (x[i + 2] \div 4)>> ELSE <<>>)
        \o (IF i + 3 <= Len(x) THEN <<(x[i + 2] % 4) * 64 + x[i + 3]>> ELSE <<>>)

\* Buffer.from(text, 'base64')
Base64Decode(text) ==
    LET x      == SextetsOf(text)
        groups == (Len(x) + 3) \div 4
    IN  IF groups = 0 THEN <<>>
        ELSE Flatten([k \in 1..groups |-> BytesOfGroup(x, k)], 1, groups)

ExcelHeader ==
    <<80, 75, 3, 4, 20, 0, 6, 0, 8, 0, 0, 0, 33, 0, 0, 0>>

ExcelContent == "Mock Excel Content - Replace with real Excel generation"

\* TemplateEngine.generateExcelBuffer
generateExcelBuffer == Base64Encode(ExcelHeader \o BytesOf(ExcelContent))

PdfContent ==
    "%PDF-1.4\n" \o "1 0 obj\n" \o "<<\n" \o "/Type /Catalog\n"
    \o "/Pages 2 0 R\n" \o ">>\n" \o "endobj\n" \o "\n" \o "2 0 obj\n" \o "<<\n"
    \o "/Type /Pages\n" \o "/Kids [3 0 R]\n" \o "/Count 1\n" \o ">>\n"
    \o "endobj\n" \o "\n" \o "3 0 obj\n" \o "<<\n" \o "/Type /Page\n"
    \o "/Parent 2 0 R\n" \o "/MediaBox [0 0 612 792]\n" \o "/Contents 4 0 R\n"
    \o ">>\n" \o "endobj\n" \o "\n" \o "4 0 obj\n" \o "<<\n" \o "/Length 44\n"
    \o ">>\n" \o "stream\n" \o "BT\n" \o "/F1 12 Tf\n" \o "100 700 Td\n"
    \o "(Mock PDF Content) Tj\n" \o "ET\n" \o "endstream\n" \o "endobj\n" \o "\n"
    \o "xref\n" \o "0 5\n" \o "0000000000 65535 f \n" \o "0000000009 00000 n \n"
    \o "0000000058 00000 n \n" \o "0000000115 00000 n \n"
    \o "0000000206 00000 n \n" \o "trailer\n" \o "<<\n" \o "/Size 5\n"
    \o "/Root 1 0 R\n" \o ">>\n" \o "startxref\n" \o "301\n" \o "%%EOF"

\* TemplateEngine.generatePDFBuffer
generatePDFBuffer == Base64Encode(BytesOf(PdfContent))

PngData ==
    <<137, 80, 78, 71, 13, 10, 26, 10, 0, 0, 0, 13, 73, 72, 68, 82,
     0, 0, 0, 1, 0, 0, 0, 1, 8, 6, 0, 0, 0, 31, 21, 196,
     137, 0, 0, 0, 10, 73, 68, 65, 84, 120, 156, 99, 0, 1, 0, 0,
     5, 0, 1, 13, 10, 45, 180, 0, 0, 0, 0, 73, 69, 78, 68, 174,
     66, 96, 130>>

\* TemplateEngine.generateImageBuffer
generateImageBuffer == Base64Encode(PngData)

ZipContent ==
    <<80, 75, 3, 4, 20, 0, 0, 0, 8, 0, 0, 0, 0, 0, 0, 0,
     0, 0, 0, 0, 0, 0, 0, 0, 0, 0, 80, 75, 5, 6, 0, 0,
     0, 0, 0, 0, 0, 0, 0, 0, 0, 0, 0, 0, 0, 0, 0, 0>>

\* TemplateEngine.generateZipBuffer
generateZipBuffer == Base64Encode(ZipContent)

\* one row of the csv file: a generated name, address and date
CsvRow(k, g) ==
    "\n" \o NatText(k) \o ",\"" \o g.word \o "\",\"" \o g.word \o "@example.com\",\""
    \o IsoText(g) \o "\""

\* TemplateEngine.generateCSVBuffer
generateCSVBuffer(g) ==
    Base64Encode(BytesOf("id,name,email,created_at"
                         \o CsvRow(1, g) \o CsvRow(2, g) \o CsvRow(3, g)))

\* TemplateEngine.evaluateBinaryExpression
evaluateBinaryExpression(expression, g) ==
    CASE expression = "binary.excel" -> generateExcelBuffer
      [] expression = "binary.pdf"   -> generatePDFBuffer
      [] expression = "binary.image" -> generateImageBuffer
      [] expression = "binary.zip"   -> generateZipBuffer
      [] expression = "binary.csv"   -> generateCSVBuffer(g)
      [] OTHER -> expression

\* current[key] for the values of a parsed body
IsIndex(key) == key # "" /\ AllIn(key, "digit") /\ (Len(key) = 1 \/ Ch(key, 1) # "0")

Property(current, key) ==
    CASE current.t = "object" -> Lookup(current.items, key)
      [] current.t = "array"  ->
           IF key = "length" THEN Num(Len(current.items))
           ELSE IF IsIndex(key) /\ parseInt(key) < Len(current.items)
                THEN current.items[parseInt(key) + 1]
                ELSE Undefined
      [] current.t = "string" ->
           IF key = "length" THEN Num(Len(current.s))
           ELSE IF IsIndex(key) /\ parseInt(key) < Len(current.s)
                THEN Str(Ch(current.s, parseInt(key) + 1))
                ELSE Undefined
      [] OTHER -> Undefined

\* the loop of getNestedProperty; reading a property of null throws
RECURSIVE NestedWalk(_, _)
NestedWalk(current, keys) ==
    IF keys = <<>> THEN [throw |-> FALSE, v |-> current]
    ELSE IF current.t = "null" THEN [throw |-> TRUE, v |-> Undefined]
    ELSE IF Property(current, Head(keys)) = Undefined
         THEN [throw |-> FALSE, v |-> Undefined]
    ELSE NestedWalk(Property(current, Head(keys)), Tail(keys))

\* TemplateEngine.getNestedProperty
getNestedProperty(obj, path) ==
    IF ~Truthy(obj) \/ obj.t \notin {"object", "array"}
    THEN [throw |-> FALSE, v |-> Undefined]
    ELSE NestedWalk(obj, split(path, "."))

\* TemplateEngine.evaluateExpression
evaluateExpression(expression, ctx, g) ==
    LET paramName  == SubSeq(expression, 8, Len(expression))
        queryValue == Lookup(ctx.query, SubSeq(expression, 7, Len(expression)))
        nested     == getNestedProperty(ctx.body, SubSeq(expression, 6, Len(expression)))
        headerName == SubSeq(expression, 9, Len(expression))
    IN  IF startsWith(expression, "params.")
        THEN (IF HasKey(ctx.params, paramName) THEN Str(Get(ctx.params, paramName))
              ELSE Str(""))
        ELSE IF startsWith(expression, "query.")
        THEN (IF queryValue.t = "array"
              THEN (IF queryValue.items = <<>> THEN Str("") ELSE OrEmpty(queryValue.items[1]))
              ELSE OrEmpty(queryValue))
        ELSE IF startsWith(expression, "body.")
        THEN (IF nested.throw THEN Str(expression) ELSE OrEmpty(nested.v))
        ELSE IF startsWith(expression, "headers.")
        THEN OrEmpty(Lookup(ctx.headers, toLowerCase(headerName)))
        ELSE IF startsWith(expression, "faker.")
        THEN Str(evaluateFakerExpression(expression, g))
        ELSE IF startsWith(expression, "random.")
        THEN Str(evaluateRandomExpression(expression, g))
        ELSE IF startsWith(expression, "date.")
        THEN Str(evaluateDateExpression(expression, g))
        ELSE IF startsWith(expression, "binary.")
        THEN Str(evaluateBinaryExpression(expression, g))
        ELSE Str(expression)

\* the end of the match of /\{\{([^}]+)\}\}/ that begins at place i of s, 0
\* when none begins there
PlaceholderEnd(s, i) ==
    LET e == RunEnd(s, i + 2, Class("expr"))
    IN  IF At(s, i, "{{") /\ e >= i + 2 /\ At(s, e + 1, "}}") THEN e + 2 ELSE 0

\* result.replace(templateRegex, ...) from place i on, k placeholders having
\* been replaced before it
RECURSIVE ReplacePlaceholders(_, _, _, _, _)
ReplacePlaceholders(s, i, k, ctx, gens) ==
    IF i > Len(s) THEN ""
    ELSE IF PlaceholderEnd(s, i) > 0
         THEN String(evaluateExpression(trim(SubSeq(s, i + 2, PlaceholderEnd(s, i) - 2)),
                                        ctx, gens[(k % Len(gens)) + 1]))
              \o ReplacePlaceholders(s, PlaceholderEnd(s, i) + 1, k + 1, ctx, gens)
         ELSE Ch(s, i) \o ReplacePlaceholders(s, i + 1, k, ctx, gens)

\* the replace of processStringTemplate throws: the value returned for one of
\* the placeholders cannot be converted to a string
RECURSIVE ReplaceThrows(_, _, _, _, _)
ReplaceThrows(s, i, k, ctx, gens) ==
    IF i > Len(s) THEN FALSE
    ELSE IF PlaceholderEnd(s, i) > 0
         THEN \/ StringThrows(evaluateExpression(
                     trim(SubSeq(s, i + 2, PlaceholderEnd(s, i) - 2)),
                     ctx, gens[(k % Len(gens)) + 1]))
              \/ ReplaceThrows(s, PlaceholderEnd(s, i) + 1, k + 1, ctx, gens)
         ELSE ReplaceThrows(s, i + 1, k, ctx, gens)

TypeError == Thrown("Cannot convert object to primitive value")

CoerceLoose(result) ==
    IF ~Number(result).nan /\ trim(result) # "" THEN Number(result).v
    ELSE IF startsWith(result, "true") THEN Bool(TRUE)
    ELSE IF startsWith(result, "false") THEN Bool(FALSE)
    ELSE IF \/ startsWith(result, "{") /\ endsWith(result, "}")
            \/ startsWith(result, "[") /\ endsWith(result, "]")
         THEN (IF JSONparse(result).ok THEN JSONparse(result).v ELSE Str(result))
    ELSE Str(result)

\* the coercion of processStringTemplate: number, then boolean, then JSON
Coerce(result) ==
    IF ~Number(result).nan /\ trim(result) # "" THEN Number(result).v
    ELSE IF result = "true" THEN Bool(TRUE)
    ELSE IF result = "false" THEN Bool(FALSE)
    ELSE IF \/ startsWith(result, "{") /\ endsWith(result, "}")
            \/ startsWith(result, "[") /\ endsWith(result, "]")
         THEN (IF JSONparse(result).ok THEN JSONparse(result).v ELSE Str(result))
    ELSE Str(result)

processStringTemplateCoercing(template, ctx, gens) ==
    Coerce(ReplacePlaceholders(template, 1, 0, ctx, gens))

\* TemplateEngine.processStringTemplate
processStringTemplate(template, ctx, gens) ==
    LET result          == ReplacePlaceholders(template, 1, 0, ctx, gens)
        hasReplacements == \E i \in 1..Len(template) : PlaceholderEnd(template, i) > 0
    IN  IF ~includes(template, "{{") THEN Str(template)
        ELSE IF ReplaceThrows(template, 1, 0, ctx, gens) THEN TypeError
        ELSE IF /\ hasReplacements
                /\ startsWith(template, "{{") /\ endsWith(template, "}}")
                /\ \E i \in 1..Len(template) : PlaceholderEnd(template, i) = Len(template)
             THEN Coerce(result)
        ELSE Str(result)

\* the draws of the i-th element of a list or map
Rotate(gens, i) == [k \in 1..Len(gens) |-> gens[((k + i - 1) % Len(gens)) + 1]]

\* the error of the first element that threw, else the value v
FirstThrown(results, v) ==
    LET thrown == {i \in 1..Len(results) : results[i].t = "throw"}
    IN  IF thrown = {} THEN v ELSE results[Min(thrown)]

\* TemplateEngine.processTemplate
RECURSIVE processTemplate(_, _, _)
processTemplate(template, ctx, gens) ==
    LET results == [i \in 1..Len(template.items) |->
                      processTemplate(IF template.t = "array" THEN template.items[i]
                                      ELSE template.items[i].value,
                                      ctx, Rotate(gens, i - 1))]
    IN  CASE template.t = "string" -> processStringTemplate(template.s, ctx, gens)
          [] template.t = "array"  -> FirstThrown(results, Arr(results))
          [] template.t = "object" ->
               FirstThrown(results,
                           Obj([i \in 1..Len(template.items) |->
                                  Entry(template.items[i].name, results[i])]))
          [] OTHER -> template

(***************************************************************************)
(* The expansion of one response template, applied again to its own        *)
(* result.                                                                 *)
(***************************************************************************)
MaxTemplateLen == 4

MaxPasses == 2

\* the characters template strings are made of
TemplateChars == {"{", "}", "4", "a"}

\* the dotted paths of {{body.<path>}}
BodyPaths == {"password", "password.x", "user", "user.name", "user.name.x", "user.zip.x", "zip"}

\* the bounds of {{random.number(min,max)}}
RandomBounds == {-2, -1, 0, 1, 3}

\* template strings: every string over TemplateChars up to MaxTemplateLen,
\* strings that would coerce if they were the result of a placeholder, and
\* strings with placeholders of every namespace
TemplateStrings ==
    UNION {StringsOfLen(TemplateChars, k) : k \in 0..MaxTemplateLen}
    \cup {"42", " 7 ", "-5", "1.5", "true", "false", "null", "{}", "[1,2]", "{\"a\":1}",
          "hello", "params.id", "{ {params.id} }", "{{}} and {{", "{{a}b}}"}
    \cup {"{{body." \o p \o "}}" : p \in BodyPaths}
    \cup {"{{random.number(" \o IntText(a) \o "," \o IntText(b) \o ")}}" :
            a \in RandomBounds, b \in RandomBounds}
    \cup {"{{params.id}}", "user-{{params.id}}", " {{params.id}} ", "{{ params.id }}",
          "{{params.id}}{{params.id}}", "{{params.id}}.{{params.id}}", "{{params.none}}",
          "{{query.type}}", "{{body.password}}", "{{body.user.name}}", "{{body.user}}",
          "{{body.password.x}}", "{{headers.Authorization}}", "{{unknown}}", "{{ }}",
          "{{faker.person.firstName}}", "{{faker.number.int(5)}}", "{{faker.nothing.here}}",
          "{{random.number(1,3)}}", "{{random.number(0,0)}}", "{{random.boolean}}",
          "{{random.boolean}}{{random.boolean}}", "{{random.uuid}}", "{{date.now}}",
          "{{date.timestamp}}", "{{binary.pdf}}", "{{binary.none}}"}

\* response templates: strings, a list, a map, and values that are not strings
Templates ==
    {Str(t) : t \in TemplateStrings}
    \cup {Arr(<<Str("42"), Str("{{params.id}}"), Num(7)>>),
          Obj(<<Entry("id", Str("{{params.id}}")), Entry("flag", Str("true")),
                Entry("tags", Arr(<<Str("{{random.boolean}}"), Str("{{random.boolean}}")>>))>>),
          Obj(<<Entry("bad", Str("{{faker.nothing.here}}")),
                Entry("id", Str("user-{{params.id}}"))>>),
          Num(42), Bool(TRUE), Null}

\* request bodies: absent, a scalar, a map, a nested map with a null entry, a
\* map holding a value that cannot be converted to a string, a map holding
\* the number 0 and the boolean false
Bodies ==
    {Undefined, Str("secret"), Password("secret"),
     Obj(<<Entry("user", Obj(<<Entry("name", Str("Ada"))>>)), Entry("password", Null)>>),
     Obj(<<Entry("user", Obj(<<Entry("toString", Num(1))>>))>>),
     Obj(<<Entry("zip", Num(0)), Entry("password", Bool(FALSE))>>)}

TemplateContexts ==
    {[params |-> <<Entry("id", id)>>,
      query |-> <<Entry("type", Str("premium"))>>,
      body |-> b,
      headers |-> <<Entry("authorization", Str("Bearer 5"))>>] :
        id \in {"42", "true", "{\"a\":1}", "{{params.id}}"},
        b \in Bodies}

\* what the generators return in one expansion
Draws ==
    {<<a, b>> : a, b \in {[word |-> "Ada", pick |-> 0, flag |-> TRUE],
                          [word |-> "42", pick |-> 1, flag |-> FALSE],
                          [word |-> "true", pick |-> 12, flag |-> TRUE]}}

InitTpl ==
    /\ response \in Templates
    /\ context \in TemplateContexts
    /\ expanded = Undefined
    /\ passes = 0
    /\ endpoint = NoEndpoint /\ condResult = NotEvaluated
    /\ IdleRoute /\ IdleCompile /\ IdleDispatch

\* processTemplate applied to the response template, then to its own result
Expand ==
    /\ passes < MaxPasses
    /\ \E gens \in Draws :
         expanded' = processTemplate(IF passes = 0 THEN response ELSE expanded,
                                     context, gens)
    /\ passes' = passes + 1
    /\ UNCHANGED <<response, endpoint, context, condResult>>
    /\ UNCHANGED <<routeVars, compileVars, dispatchVars>>

NextTpl == Expand

SpecTpl == InitTpl /\ [][NextTpl]_vars

\* the string holds {{, one or more characters other than }, and }}
HasPlaceholder(s) ==
    \E i, j \in 1..Len(s) :
        /\ i + 3 <= j /\ j + 1 <= Len(s)
        /\ SubSeq(s, i, i + 1) = "{{" /\ SubSeq(s, j, j + 1) = "}}"
        /\ \A k \in (i + 2)..(j - 1) : Ch(s, k) # "}"

\* C10: for a string with no {{...}} placeholder, processTemplate returns the
\* very same string, not coerced, in every context, and applying it to its own
\* result returns that string again.
C10_TemplateIdentity ==
    (response.t = "string" /\ ~HasPlaceholder(response.s) /\ passes >= 1)
        => expanded = response

\* the string "42", which a coercion would turn into a number, after two passes
C10_Witness ==
    /\ response = Str("42") /\ passes = 2 /\ expanded = Str("42")

\* the string is exactly one placeholder: {{, one or more characters other
\* than }, and }}
LonePlaceholder(s) ==
    /\ Len(s) >= 5
    /\ SubSeq(s, 1, 2) = "{{" /\ SubSeq(s, Len(s) - 1, Len(s)) = "}}"
    /\ \A k \in 3..(Len(s) - 2) : Ch(s, k) # "}"

\* C11: the result of a template string is coerced if and only if the trimmed
\* string is exactly one placeholder: a string holding a placeholder and any
\* other text or a second placeholder expands to a string, and the lone
\* placeholder {{params.id}} with blanks around it expands to the number when
\* params.id is digits.
C11_CoercionOnlyLone ==
    (response.t = "string" /\ HasPlaceholder(response.s) /\ passes = 1) =>
        /\ ~LonePlaceholder(trim(response.s)) => expanded.t = "string"
        /\ ( /\ trim(response.s) = "{{params.id}}"
             /\ Get(context.params, "id") = "42" ) => expanded = Num(42)

\* some segment of the dotted path is absent from the body: the value reached
\* before it is not a map, or is a map without that key
RECURSIVE SegmentAbsent(_, _)
SegmentAbsent(v, keys) ==
    /\ keys # <<>>
    /\ \/ v.t # "object"
       \/ ~HasKey(v.items, Head(keys))
       \/ SegmentAbsent(Get(v.items, Head(keys)), Tail(keys))

\* C13: for every body and every dotted path, {{body.<path>}} expands without
\* an error, and to the empty string when a segment of the path is absent.
C13_BodyLookupTotal ==
    \A p \in BodyPaths :
        (response = Str("{{body." \o p \o "}}") /\ passes = 1) =>
            /\ expanded.t # "throw"
            /\ SegmentAbsent(context.body, split(p, ".")) => expanded = Str("")

\* C14: processTemplate returns a value and raises no error, for every
\* template and context; an expression of an unknown namespace is replaced by
\* its text, a generator expression that fails stays visible, and the other
\* placeholders of the same tree are expanded all the same.
C14_ExpansionNeverFails ==
    passes >= 1 =>
        /\ expanded.t # "throw"
        /\ (response = Str("{{unknown}}") /\ passes = 1) => expanded = Str("unknown")
        /\ (response = Str("{{faker.nothing.here}}"))
              => expanded = Str("{{faker.nothing.here}}")
        /\ ( /\ response.t = "object" /\ HasKey(response.items, "bad")
             /\ passes = 1 )
              => /\ Get(expanded.items, "bad") = Str("{{faker.nothing.here}}")
                 /\ Get(expanded.items, "id")
                      = Str("user-" \o Get(context.params, "id"))

\* C15: for integers min <= max, {{random.number(min,max)}} expands to an
\* integer n with min <= n <= max, zero and negative bounds included.
C15_RandomNumberBounds ==
    \A a \in RandomBounds, b \in RandomBounds :
        ( /\ a <= b /\ passes = 1
          /\ response = Str("{{random.number(" \o IntText(a) \o "," \o IntText(b) \o ")}}") )
        => /\ expanded.t = "number" /\ expanded.s = ""
           /\ a <= expanded.n /\ expanded.n <= b

(***************************************************************************)
(* MockServer: the catch-all handler and handleRequest                     *)
(* (src/core/server.ts).                                                   *)
(*                                                                         *)
(* A handler runs without interruption from its start to its first await   *)
(* that suspends it, and from the firing of its timer to its end; the      *)
(* only await that suspends is the one on delay().  The response object    *)
(* keeps the headers set on it, its status, its body and the number of     *)
(* times it was sent.  The log of a request lists the steps of             *)
(* handleRequest it went through.                                          *)
(***************************************************************************)
\* an endpoint definition; 0, "" and <<>> stand for an absent field
MockEndpoint(status, delay, headers, condition, resp) ==
    [status |-> status, delay |-> delay, headers |-> headers,
     condition |-> condition, response |-> resp]

\* a raw payload: the bytes handed to res.send
Bytes(data) == [t |-> "bytes", s |-> "", n |-> 0, b |-> FALSE, items |-> data]

isBinaryResponseStrict(text) ==
    Len(text) > 64 /\ Base64Encode(Base64Decode(text)) = text

\* MockServer.isBinaryResponse
isBinaryResponse(text) ==
    Len(text) > 50 /\ Base64Encode(Base64Decode(text)) = text

\* MockServer.getBinaryContentType
getBinaryContentType(originalResponse) ==
    IF includes(originalResponse, "{{binary.excel}}")
    THEN "application/vnd.openxmlformats-officedocument.spreadsheetml.sheet"
    ELSE IF includes(originalResponse, "{{binary.pdf}}") THEN "application/pdf"
    ELSE IF includes(originalResponse, "{{binary.image}}") THEN "image/png"
    ELSE IF includes(originalResponse, "{{binary.zip}}") THEN "application/zip"
    ELSE IF includes(originalResponse, "{{binary.csv}}") THEN "text/csv"
    ELSE "application/octet-stream"

\* the response object of a request no handler has touched
NewResponse == [headers |-> <<>>, statusCode |-> 0, body |-> Undefined, sends |-> 0]

\* res.getHeader(name) as a truth value: header names compare without case
getHeader(res, name) == HasKey(res.headers, toLowerCase(name))

\* res.setHeader throws on a value with a character that may not appear in a
\* header (a line feed)
InvalidHeaderValue(value) == includes(value, "\n")

\* res.setHeader(name, value), the value being valid
setHeader(res, name, value) ==
    [res EXCEPT !.headers = Put(@, toLowerCase(name), value)]

\* the content type unless one is set
WithContentType(res, type) ==
    IF getHeader(res, "Content-Type") THEN res ELSE setHeader(res, "Content-Type", type)

\* res.status(code).json(value): the content type is set unless one is
res_json(res, code, value) ==
    [WithContentType(res, "application/json")
     EXCEPT !.statusCode = code, !.body = value, !.sends = @ + 1]

\* res.status(code).send(buffer)
res_send(res, code, data) ==
    [WithContentType(res, "application/octet-stream")
     EXCEPT !.statusCode = code, !.body = Bytes(data), !.sends = @ + 1]

\* the options the command line gives the server when no flag is passed
options == [cors |-> TRUE, profile |-> ""]

\* res.sendStatus(code): the status and its standard text as the body
sendStatus(res, code) ==
    [WithContentType(res, "text/plain")
     EXCEPT !.statusCode = code, !.body = Str(IF code = 200 THEN "OK" ELSE IntText(code)),
            !.sends = @ + 1]

\* the CORS middleware of setupMiddleware, up to its test of the method: the
\* three headers are set on the response of every request
corsHeaders(res) ==
    IF options.cors = FALSE THEN res
    ELSE setHeader(setHeader(setHeader(res,
             "Access-Control-Allow-Origin", "*"),
             "Access-Control-Allow-Methods", "GET, POST, PUT, DELETE, PATCH, OPTIONS, HEAD"),
             "Access-Control-Allow-Headers",
             "Origin, X-Requested-With, Content-Type, Accept, Authorization")

\* the CORS middleware answers the request itself and does not call next()
corsAnswers(req) == options.cors # FALSE /\ req.method = "OPTIONS"

\* the loop over Object.entries(endpoint.headers), from the i-th entry on
RECURSIVE SetHeaders(_, _, _)
SetHeaders(res, headers, i) ==
    IF i > Len(headers) THEN [ok |-> TRUE, res |-> res]
    ELSE IF InvalidHeaderValue(headers[i].value) THEN [ok |-> FALSE, res |-> res]
    ELSE SetHeaders(setHeader(res, headers[i].name, headers[i].value), headers, i + 1)

\* the catch block of handleRequest
Failed(res, message) ==
    res_json(res, 500, Obj(<<Entry("error", Str("Failed to process request")),
                             Entry("message", Str(message))>>))

GateOpen(ep, ctx) == FALSE

\* the condition gate of handleRequest: the request is turned away
GateCloses(ep, ctx) == ep.condition # "" /\ ~evaluateCondition(ep.condition, ctx)

ConditionNotMet(res) ==
    res_json(res, 404, Obj(<<Entry("error", Str("Condition not met"))>>))

delayImmediate(ms, now) == now

\* MockServer.delay: the time from which the timer set at time now may fire
delay(ms, now) == now + ms

\* typeof processedResponse === 'object'
TypeofObject(v) == v.t \in {"object", "array", "null"}

\* the end of handleRequest, given what setting the headers and expanding
\* the template gave: the catch block, the binary answer or the JSON answer
Encode(ep, statusCode, set, processed) ==
    IF ~set.ok
    THEN [res |-> Failed(set.res, "Invalid character in header content"),
          log |-> <<"headers">>]
    ELSE IF processed.t = "throw"
    THEN [res |-> Failed(set.res, processed.s), log |-> <<"headers", "expand">>]
    ELSE IF processed.t = "string" /\ isBinaryResponse(processed.s)
    THEN [res |-> res_send(WithContentType(set.res, getBinaryContentType(ep.response.s)),
                           statusCode, Base64Decode(processed.s)),
          log |-> <<"headers", "expand", "send">>]
    ELSE [res |-> res_json(WithContentType(set.res,
                                           IF TypeofObject(processed)
                                           THEN "application/json" ELSE "text/plain"),
                           statusCode, processed),
          log |-> <<"headers", "expand", "send">>]

\* handleRequest after the delay: status and headers, the expansion of the
\* template, the answer
Respond(ep, ctx, res, gens) ==
    Encode(ep, IF ep.status # 0 THEN ep.status ELSE 200,
           SetHeaders(res, ep.headers, 1),
           processTemplate(ep.response, ctx, gens))

\* the 404 of the catch-all handler
RouteNotFound(res, method, requestPath, rs) ==
    res_json(res, 404,
             Obj(<<Entry("error", Str("Route not found")),
                   Entry("method", Str(method)),
                   Entry("path", Str(requestPath)),
                   Entry("availableRoutes",
                         Arr([i \in 1..Len(rs) |->
                                Str(rs[i].method \o " " \o rs[i].path)]))>>))

\* the error-handling middleware
InternalServerError(res, message) ==
    res_json(res, 500, Obj(<<Entry("error", Str("Internal server error")),
                             Entry("message", Str(message))>>))

(***************************************************************************)
(* The config the server of the dispatch specifications has loaded.        *)
(***************************************************************************)
\* a base64 text that names no binary kind
RawPayload == "TW9jayBvY3RldCBwYXlsb2FkIHdpdGggbm8gYmluYXJ5IGtpbmQgbmFtZWQgaW4gaXQu"

ServerConfig ==
    <<Entry("GET /users/:id",
            MockEndpoint(0, 0, <<>>, "", Obj(<<Entry("id", Str("{{params.id}}"))>>))),
      Entry("GET /echo/:v", MockEndpoint(0, 0, <<>>, "", Str("{{params.v}}"))),
      Entry("GET /files/excel", MockEndpoint(0, 0, <<>>, "", Str("{{binary.excel}}"))),
      Entry("GET /files/pdf", MockEndpoint(201, 0, <<>>, "", Str("{{binary.pdf}}"))),
      Entry("GET /files/image", MockEndpoint(0, 0, <<>>, "", Str("{{binary.image}}"))),
      Entry("GET /files/zip", MockEndpoint(0, 0, <<>>, "", Str("{{binary.zip}}"))),
      Entry("GET /files/csv", MockEndpoint(0, 0, <<>>, "", Str("{{binary.csv}}"))),
      Entry("GET /files/raw", MockEndpoint(0, 0, <<>>, "", Str(RawPayload))),
      Entry("GET /files/typed",
            MockEndpoint(0, 0, <<Entry("Content-Type", "application/x-mock")>>, "",
                         Str("{{binary.zip}}"))),
      Entry("GET /slow",
            MockEndpoint(0, 2, <<Entry("X-Mock", "1")>>, "",
                         Obj(<<Entry("ok", Bool(TRUE))>>))),
      Entry("GET /premium",
            MockEndpoint(0, 2, <<Entry("X-Tier", "gold")>>,
                         "query.type === \"premium\"", Str("{{query.type}}"))),
      Entry("GET /vip/:id",
            MockEndpoint(0, 1, <<Entry("X-Tier", "vip")>>, "params.id === \"42\"",
                         Str("vip {{params.id}}"))),
      Entry("POST /login",
            MockEndpoint(401, 0, <<>>, "body.password !== \"secret\"",
                         Obj(<<Entry("error", Str("Invalid credentials"))>>))),
      Entry("POST /echo",
            MockEndpoint(0, 0, <<Entry("X-Mock", "1")>>, "", Str("{{body.user}}"))),
      Entry("OPTIONS /users/:id",
            MockEndpoint(204, 0, <<Entry("Allow", "GET, OPTIONS")>>, "",
                         Str("options {{params.id}}"))),
      Entry("GET /badheader",
            MockEndpoint(0, 2, <<Entry("X-Mock", "1"), Entry("X-Bad", "a\nb")>>, "",
                         Str("ok")))>>

\* Object.keys(config)
RouteKeys(config) == [i \in 1..Len(config) |-> config[i].name]

\* a request: method, path, parsed query, parsed body, and the draws of the
\* generators during its expansion
Req(method, path, query, body) ==
    [method |-> method, path |-> path, query |-> query, body |-> body,
     gens |-> <<[word |-> "Ada", pick |-> 1, flag |-> TRUE],
                [word |-> "Bob", pick |-> 12, flag |-> FALSE]>>]

Get_(path) == Req("GET", path, <<>>, Undefined)

\* the requests one at a time is drawn from
DispatchRequests ==
    {Get_(p) : p \in {"/users/42", "/users/abc", "/users/%zz", "/users",
                      "/echo/42", "/echo/-7", "/echo/true", "/echo/false",
                      "/echo/true123", "/echo/%7B%22a%22%3A1%7D", "/echo/%7Ba%7D",
                      "/echo/%5B1%2C2%5D", "/echo/%zz",
                      "/files/excel", "/files/pdf", "/files/image", "/files/zip",
                      "/files/csv", "/files/raw", "/files/typed",
                      "/slow", "/premium", "/vip/42", "/vip/41", "/badheader",
                      "/nothing"}}
    \cup {Req("GET", "/premium", <<Entry("type", Str(v))>>, Undefined) :
            v \in {"premium", "basic"}}
    \cup {Req("POST", "/login", <<>>, Password(v)) : v \in {"secret", "x"}}
    \cup {Req("POST", "/echo", <<>>, b) :
            b \in {Obj(<<Entry("user", Str("Ada"))>>),
                   Obj(<<Entry("user", Obj(<<Entry("toString", Num(1))>>))>>)}}
    \cup {Req("DELETE", "/users/42", <<>>, Undefined),
          Req("OPTIONS", "/users/42", <<>>, Undefined),
          Req("OPTIONS", "/nothing", <<>>, Undefined)}

\* the requests of the concurrent clients, and the part of the config that
\* serves them
DelayRequests ==
    {Get_("/users/42"),
     Req("GET", "/premium", <<Entry("type", Str("premium"))>>, Undefined)}

DelayConfig ==
    <<Entry("GET /users/:id", Get(ServerConfig, "GET /users/:id")),
      Entry("GET /premium", Get(ServerConfig, "GET /premium"))>>

MaxRequests == 2

MaxClock == 2

\* a request no handler has been started for
NewCall ==
    [pc |-> "new", key |-> "", params |-> <<>>, ep |-> NoEndpoint,
     res |-> NewResponse, log |-> <<>>,
     startAt |-> -1, gateAt |-> -1, wake |-> -1, sentAt |-> -1, waiting |-> {}]

\* this.mockConfig[key]
EndpointOf(key) == Get(mockConfig, key)

\* a context that is kept from one request to the next: the parameters of
\* the request answered first stay in it
ContextShared(req, params) ==
    [params |-> IF served # <<>> THEN calls[served[1]].params ELSE params,
     query |-> req.query, body |-> req.body, headers |-> <<>>]

\* the context handleRequest builds: a new object of the request's own
\* params, query, body and headers
ContextOf(req, params) ==
    [params |-> params, query |-> req.query, body |-> req.body, headers |-> <<>>]

\* the numbers of the requests whose handler is suspended in delay()
Suspended == {q \in 1..Len(calls) : calls[q].pc = "suspended"}

\* the request is answered: its handler has ended
Answer(r, call, out, log) ==
    /\ calls' = [calls EXCEPT ![r] = [call EXCEPT !.pc = "done", !.res = out,
                                                 !.log = log, !.sentAt = clock]]
    /\ served' = Append(served, r)
    /\ alive' = alive

\* the request is answered with what handleRequest gave after the steps gone
AnswerWith(r, call, steps, out) == Answer(r, call, out.res, steps \o out.log)

\* handleRequest: from its start to the await on delay, or to its end when
\* there is no delay; and from the await to its end
handleRequest(r, req, ep, ctx, call, gate) ==
    IF call.pc = "new" /\ GateCloses(ep, ctx)
    THEN Answer(r, call, ConditionNotMet(call.res), gate)
    ELSE IF call.pc = "new" /\ ep.delay > 0
    THEN /\ calls' = [calls EXCEPT ![r] =
                        [call EXCEPT !.pc = "suspended",
                                     !.log = gate \o <<"delay">>,
                                     !.gateAt = clock,
                                     !.wake = delay(ep.delay, clock)]]
         /\ UNCHANGED <<alive, served>>
    ELSE AnswerWith(r, IF call.pc = "new" THEN [call EXCEPT !.gateAt = clock] ELSE call,
                    IF call.pc = "new" THEN gate ELSE call.log,
                    Respond(ep, ctx, call.res, req.gens))

\* the endpoint a handler after its await reads from the config again
EndpointRefetched(r, match) == EndpointOf(match.route)

\* const endpoint = this.mockConfig[match.route.originalRoute]: the handler
\* fetches its endpoint in the run that resolved the route and holds it in a
\* local across the await
EndpointFor(r, match) ==
    IF calls[r].pc = "new" THEN EndpointOf(match.route) ELSE calls[r].ep

\* the CORS middleware, then the catch-all handler after findMatchingRoute
Dispatch(r, req, match, call) ==
    CASE call.pc = "new" /\ corsAnswers(req) ->
           Answer(r, call, sendStatus(call.res, 200), <<>>)
      [] match.kind = "throw" ->
           \* the URIError leaves the async handler as a rejected promise: the
           \* framework ignores it and the unhandledRejection handler of cli.ts
           \* ends the process, or the framework hands it to the error
           \* middleware
           \/ /\ calls' = [calls EXCEPT ![r] = [call EXCEPT !.pc = "rejected"]]
              /\ alive' = FALSE
              /\ served' = served
           \/ Answer(r, call, InternalServerError(call.res, "URI malformed"), <<>>)
      [] match.kind = "none" ->
           Answer(r, call, RouteNotFound(call.res, req.method, req.path, routes), <<>>)
      [] OTHER ->
           handleRequest(r, req, EndpointFor(r, match),
                         ContextOf(req, match.params),
                         [call EXCEPT !.key = match.route, !.params = match.params,
                                      !.ep = EndpointFor(r, match)],
                         IF EndpointFor(r, match).condition # ""
                         THEN <<"condition">> ELSE <<>>)

\* the handler of the request has not started
Arrived(r) == calls[r].pc = "new"

\* the handler of the request waits in delay() and its timer may fire
TimerFired(r) == calls[r].pc = "suspended" /\ clock >= calls[r].wake

\* what the handler holds of its route: the result of findMatchingRoute at
\* its start, its own endpoint and parameters after the await
MatchOf(r) ==
    IF Arrived(r) THEN findMatchingRoute(routes, inbox[r].method, inbox[r].path)
    ELSE [kind |-> "match", route |-> calls[r].key, params |-> calls[r].params]

\* the event loop runs the handler of a request: from its start to its end
\* or to the await on delay, or from the firing of its timer to its end
Run(r) ==
    /\ alive
    /\ Arrived(r) \/ TimerFired(r)
    /\ Dispatch(r, inbox[r], MatchOf(r),
                IF Arrived(r)
                THEN [calls[r] EXCEPT !.startAt = clock, !.waiting = Suspended,
                                      !.res = corsHeaders(@)]
                ELSE calls[r])
    /\ UNCHANGED <<inbox, clock>>
    /\ UNCHANGED <<routeVars, compileVars, condVars, tplVars>>

\* time passes
Tick ==
    /\ alive /\ clock < MaxClock
    /\ clock' = clock + 1
    /\ UNCHANGED <<inbox, calls, alive, served>>
    /\ UNCHANGED <<routeVars, compileVars, condVars, tplVars>>

\* the server has loaded a config; the clients' requests are given
InitServer(config, requests) ==
    /\ inbox = requests
    /\ calls = [r \in 1..Len(requests) |-> NewCall]
    /\ clock = 0 /\ alive = TRUE /\ served = <<>>
    /\ mockConfig = config
    /\ routes = parseRoutes(RouteKeys(mockConfig))
    /\ reloads = 0 /\ loadError = "" /\ lastReq = NoRequest /\ lastMatch = FindIdle
    /\ IdleCompile /\ IdleCond /\ IdleTpl

InitDispatch == \E req \in DispatchRequests : InitServer(ServerConfig, <<req>>)

InitDelay ==
    \E requests \in [1..MaxRequests -> DelayRequests] : InitServer(DelayConfig, requests)

NextDispatch ==
    \/ \E r \in 1..Len(inbox) : Run(r)
    \/ Tick

SpecDispatch == InitDispatch /\ [][NextDispatch]_vars

SpecDelay == InitDelay /\ [][NextDispatch]_vars

(***************************************************************************)
(* ConfigParser (src/utils/configParser.ts) and the reload of the config.  *)
(*                                                                         *)
(* A config file is given by what reading it yields: whether it exists,    *)
(* whether its text parses, and the parsed object: its profiles (a map     *)
(* from a profile name to a mock config) with their default, or, without   *)
(* profiles, the mock config itself.                                       *)
(***************************************************************************)
ConfigFile(exists, parses, profiles, default, mock) ==
    [exists |-> exists, parses |-> parses, profiles |-> profiles,
     default |-> default, mock |-> mock]

MockFile(config) == ConfigFile(TRUE, TRUE, <<>>, "", config)

ProfileFile(profiles, default) == ConfigFile(TRUE, TRUE, profiles, default, <<>>)

Loaded(config) == [ok |-> TRUE, error |-> "", config |-> config]

LoadError(message) == [ok |-> FALSE, error |-> message, config |-> <<>>]

\* ConfigParser.validateEndpoint: the response is required, the status is in
\* 100..599 and the delay is not negative when they are given (0 stands for
\* a status or delay that is not given)
validateEndpoint(ep, route) ==
    IF ep.response.t = "undefined"
    THEN LoadError("Endpoint for route \"" \o route \o "\" must have a \"response\" property")
    ELSE IF ep.status # 0 /\ (ep.status < 100 \/ ep.status > 599)
    THEN LoadError("Invalid status code for route \"" \o route \o "\"")
    ELSE IF ep.delay < 0
    THEN LoadError("Invalid delay for route \"" \o route \o "\"")
    ELSE Loaded(ep)

\* what validateMockConfig gives for a config whose first route is given with
\* its validated endpoint and the validation of the routes after it
MockChecked(route, valid, rest) ==
    IF ~isValidRoute(route) THEN LoadError("Invalid route format: " \o route)
    ELSE IF ~valid.ok THEN valid
    ELSE IF ~rest.ok THEN rest
    ELSE Loaded(<<Entry(route, valid.config)>> \o rest.config)

\* ConfigParser.validateMockConfig: the first key that is not a valid route,
\* or whose endpoint is not valid, fails the whole config
RECURSIVE validateMockConfig(_)
validateMockConfig(config) ==
    IF config = <<>> THEN Loaded(<<>>)
    ELSE MockChecked(Head(config).name,
                     validateEndpoint(Head(config).value, Head(config).name),
                     validateMockConfig(Tail(config)))

ProfileChecked(name, first, rest) ==
    IF ~first.ok THEN first
    ELSE IF ~rest.ok THEN rest
    ELSE Loaded(<<Entry(name, first.config)>> \o rest.config)

\* ConfigParser.validateProfileConfig: every profile is validated
RECURSIVE validateProfileConfig(_)
validateProfileConfig(profiles) ==
    IF profiles = <<>> THEN Loaded(<<>>)
    ELSE ProfileChecked(Head(profiles).name,
                        validateMockConfig(Head(profiles).value),
                        validateProfileConfig(Tail(profiles)))

\* the profile config validateConfig returns: the default is config.default
\* or the first profile
ProfileConfigOf(file, profiles) ==
    IF ~profiles.ok THEN profiles
    ELSE Loaded([profiles |-> profiles.config,
                 default |-> IF file.default # "" THEN file.default
                             ELSE profiles.config[1].name,
                 mock |-> <<>>])

MockConfigOf(mock) ==
    IF ~mock.ok THEN mock
    ELSE Loaded([profiles |-> <<>>, default |-> "", mock |-> mock.config])

\* ConfigParser.parseConfigFile with validateConfig: the validated config, a
\* record of its profiles and their default, or of its mock config
parseConfigFile(file) ==
    IF ~file.exists THEN LoadError("Config file not found")
    ELSE IF ~file.parses THEN LoadError("Failed to parse config file")
    ELSE IF file.profiles # <<>>
    THEN ProfileConfigOf(file, validateProfileConfig(file.profiles))
    ELSE MockConfigOf(validateMockConfig(file.mock))

\* ConfigParser.extractMockConfig
extractMockConfig(config, profile) ==
    LET targetProfile == IF profile # "" THEN profile ELSE config.default
    IN  IF config.profiles = <<>> THEN Loaded(config.mock)
        ELSE IF targetProfile = ""
        THEN LoadError("No profile specified and no default profile found")
        ELSE IF ~HasKey(config.profiles, targetProfile)
        THEN LoadError("Profile \"" \o targetProfile \o "\" not found")
        ELSE Loaded(Get(config.profiles, targetProfile))

\* the first two statements of loadConfig: the file is parsed and validated,
\* then the mock config of the profile is extracted
Extracted(parsedFile) ==
    IF parsedFile.ok THEN extractMockConfig(parsedFile.config, options.profile)
    ELSE parsedFile

\* a load that assigns this.mockConfig and leaves this.routes as it is
AssignedKeepingRoutes(extracted) ==
    IF extracted.ok
    THEN [ok |-> TRUE, error |-> "", mockConfig |-> extracted.config, routes |-> routes]
    ELSE [ok |-> FALSE, error |-> extracted.error, mockConfig |-> mockConfig,
          routes |-> routes]

\* the rest of loadConfig: this.mockConfig is assigned and parseRoutes
\* rebuilds this.routes from its keys; a failure is caught before either is
\* assigned
Assigned(extracted) ==
    IF extracted.ok
    THEN [ok |-> TRUE, error |-> "", mockConfig |-> extracted.config,
          routes |-> parseRoutes(RouteKeys(extracted.config))]
    ELSE [ok |-> FALSE, error |-> extracted.error, mockConfig |-> mockConfig,
          routes |-> routes]

\* MockServer.loadConfig, one synchronous run
loadConfig(file) == Assigned(Extracted(parseConfigFile(file)))

\* the config the server starts with, and the config an edit of the file
\* gives: "GET /item/:id" changes its status, delay, header and template,
\* "GET /gone" is removed, a key that does not compile is added
ConfigOld ==
    <<Entry("GET /item/:id",
            MockEndpoint(200, 2, <<Entry("X-Version", "1")>>, "", Str("old {{params.id}}"))),
      Entry("GET /gone", MockEndpoint(0, 0, <<>>, "", Str("gone")))>>

ConfigNew ==
    <<Entry("GET /item/(x", MockEndpoint(0, 0, <<>>, "", Str("never"))),
      Entry("GET /item/:id",
            MockEndpoint(201, 0, <<Entry("X-Version", "2")>>, "", Str("new {{params.id}}")))>>

\* what the config file may hold when the watcher reports a change
ConfigFiles ==
    {MockFile(ConfigNew),
     ProfileFile(<<Entry("dev", ConfigOld), Entry("prod", ConfigNew)>>, ""),
     ConfigFile(FALSE, FALSE, <<>>, "", <<>>),
     ConfigFile(TRUE, FALSE, <<>>, "", <<>>),
     MockFile(<<Entry("GET item", MockEndpoint(0, 0, <<>>, "", Str("x")))>>),
     MockFile(<<Entry("GET /item/:id", MockEndpoint(600, 0, <<>>, "", Str("x")))>>),
     ProfileFile(<<Entry("dev", ConfigOld)>>, "staging")}

\* the requests the clients send while the config file is edited
ReloadRequests == <<Get_("/item/7"), Get_("/item/8")>>

\* the handler of the watcher's change event: loadConfig, whose catch ends
\* the process with process.exit(1) when the load fails
Applied(load) ==
    /\ mockConfig' = load.mockConfig
    /\ routes' = load.routes
    /\ loadError' = load.error
    /\ alive' = load.ok

ConfigChanged ==
    /\ alive /\ reloads < MaxReloads
    /\ \E file \in ConfigFiles : Applied(loadConfig(file))
    /\ reloads' = reloads + 1
    /\ UNCHANGED <<lastReq, lastMatch, inbox, calls, clock, served>>
    /\ UNCHANGED <<compileVars, condVars, tplVars>>

\* the number of a request says nothing of when its handler runs, which Run
\* chooses, as it chooses when the file changes
InitReload == InitServer(ConfigOld, ReloadRequests)

NextReload == NextDispatch \/ ConfigChanged

SpecReload == InitReload /\ [][NextReload]_vars

(***************************************************************************)
(* Coercion end to end.                                                    *)
(***************************************************************************)
\* the requests that are answered
Answered == {r \in 1..Len(calls) : calls[r].pc = "done"}

\* the decoded values of :v and the JSON value each is answered with
CoercionTable ==
    {<<"42", Num(42)>>, <<"-7", Num(-7)>>,
     <<"true", Bool(TRUE)>>, <<"false", Bool(FALSE)>>,
     <<"true123", Str("true123")>>,
     <<"{\"a\":1}", Obj(<<Entry("a", Num(1))>>)>>,
     <<"[1,2]", Arr(<<Num(1), Num(2)>>)>>,
     <<"{a}", Str("{a}")>>}

\* C12: the text substituted into a template that is exactly one placeholder
\* is answered as a number when it parses as one, else as a boolean when it
\* is "true" or "false", else as the parsed JSON value when it has the shape
\* of a map or list and parses, else as the string itself ("true123" and a
\* text that fails the JSON parse stay strings, with status 200); and
\* GET /users/42 on the route GET /users/:id with response
\* {id: "{{params.id}}"} is answered 200 with the body {"id": 42}, a number.
C12_CoercionOrder ==
    \A r \in Answered :
        /\ calls[r].key = "GET /echo/:v" =>
             /\ calls[r].res.statusCode = 200 /\ calls[r].res.sends = 1
             /\ \E row \in CoercionTable :
                  /\ row[1] = Get(calls[r].params, "v")
                  /\ calls[r].res.body = row[2]
        /\ (inbox[r].method = "GET" /\ inbox[r].path = "/users/42") =>
             /\ calls[r].key = "GET /users/:id"
             /\ calls[r].res.statusCode = 200
             /\ calls[r].res.body = Obj(<<Entry("id", Num(42))>>)

C12_Witness ==
    \E r \in Answered :
        /\ calls[r].key = "GET /echo/:v"
        /\ Get(calls[r].params, "v") = "true123"
        /\ calls[r].res.body = Str("true123")

(***************************************************************************)
(* Binary answers.                                                         *)
(***************************************************************************)
\* the content type fixed for each kind of generated file
BinaryKinds ==
    {<<"excel", "application/vnd.openxmlformats-officedocument.spreadsheetml.sheet">>,
     <<"pdf", "application/pdf">>, <<"image", "image/png">>,
     <<"zip", "application/zip">>, <<"csv", "text/csv">>}

\* the bytes of the file of a kind, the rows of the csv file apart
FileStart(kind) ==
    CASE kind = "excel" -> ExcelHeader \o BytesOf(ExcelContent)
      [] kind = "pdf"   -> BytesOf(PdfContent)
      [] kind = "image" -> PngData
      [] kind = "zip"   -> ZipContent
      [] kind = "csv"   -> BytesOf("id,name,email,created_at\n1,\"")

ContentType(res) == Lookup(res.headers, "content-type")

\* C16: an endpoint whose template is exactly "{{binary.K}}" and that
\* declares no Content-Type header is answered with its status code, with
\* the bytes the expanded base64 text decodes to (for pdf they start with
\* %PDF) and with the content type fixed for K; a binary answer whose
\* template names no kind has the type application/octet-stream.
C16_BinaryAnswer ==
    \A r \in Answered :
        /\ \A k \in BinaryKinds :
             calls[r].key = "GET /files/" \o k[1] =>
               LET ep   == EndpointOf(calls[r].key)
                   data == calls[r].res.body
               IN  /\ ep.response = Str("{{binary." \o k[1] \o "}}")
                   /\ calls[r].res.statusCode = (IF ep.status = 0 THEN 200 ELSE ep.status)
                   /\ calls[r].res.sends = 1
                   /\ data.t = "bytes"
                   /\ Len(data.items) >= Len(FileStart(k[1]))
                   /\ SubSeq(data.items, 1, Len(FileStart(k[1]))) = FileStart(k[1])
                   /\ Base64Encode(data.items)
                        = evaluateBinaryExpression("binary." \o k[1], inbox[r].gens[1])
                   /\ k[1] = "pdf" => SubSeq(data.items, 1, 4) = <<37, 80, 68, 70>>
                   /\ ContentType(calls[r].res) = k[2]
        /\ calls[r].key = "GET /files/raw" =>
             /\ calls[r].res.body = Bytes(BytesOf("Mock octet payload with no binary kind named in it."))
             /\ ContentType(calls[r].res) = "application/octet-stream"
             /\ calls[r].res.statusCode = 200

C16_Witness ==
    \E r \in Answered :
        /\ calls[r].key = "GET /files/pdf"
        /\ calls[r].res.statusCode = 201
        /\ calls[r].res.body.t = "bytes"
        /\ SubSeq(calls[r].res.body.items, 1, 4) = BytesOf("%PDF")
        /\ ContentType(calls[r].res) = "application/pdf"

(***************************************************************************)
(* The order of the steps of a request.                                    *)
(***************************************************************************)
\* the place of a step in the order of handleRequest
StepRank(step) ==
    CASE step = "condition" -> 1
      [] step = "delay"     -> 2
      [] step = "headers"   -> 3
      [] step = "expand"    -> 4
      [] step = "send"      -> 5

\* the requests whose endpoint has a condition that is false for them
TurnedAway(r) ==
    \/ inbox[r].path = "/premium" /\ Lookup(inbox[r].query, "type") = Str("basic")
    \/ inbox[r].path = "/vip/41"

\* a header the endpoint declares is set on the response
DeclaredHeaderSet(r) ==
    \E i \in 1..Len(EndpointOf(calls[r].key).headers) :
        HasKey(calls[r].res.headers,
               toLowerCase(EndpointOf(calls[r].key).headers[i].name))

\* C17: the steps of a request that resolves to an endpoint run in the order
\* condition check, delay, custom headers, template expansion, send: while
\* the delay is waited no header is set and nothing is sent, and an answer
\* that follows a failed expansion carries the declared headers; when the
\* condition is false the request ends with 404 {error: "Condition not met"}
\* and no delay is waited, no declared header is set and the template is not
\* expanded.
C17_DispatchOrder ==
    \A r \in 1..Len(calls) :
        /\ \A i, j \in 1..Len(calls[r].log) :
             i < j => StepRank(calls[r].log[i]) < StepRank(calls[r].log[j])
        /\ calls[r].pc = "suspended" =>
             /\ calls[r].res = corsHeaders(NewResponse)
             /\ calls[r].log[Len(calls[r].log)] = "delay"
        /\ (calls[r].pc = "done" /\ calls[r].key # "" /\ ~TurnedAway(r)) =>
             /\ EndpointOf(calls[r].key).delay > 0 =>
                  calls[r].sentAt >= calls[r].startAt + EndpointOf(calls[r].key).delay
             /\ \E i \in 1..Len(calls[r].log) : calls[r].log[i] = "headers"
             /\ ( /\ \E i \in 1..Len(calls[r].log) : calls[r].log[i] = "expand"
                  /\ EndpointOf(calls[r].key).headers # <<>> )
                  => DeclaredHeaderSet(r)
        /\ (calls[r].pc # "new" /\ TurnedAway(r)) =>
             /\ calls[r].pc = "done"
             /\ calls[r].res.statusCode = 404
             /\ calls[r].res.body = Obj(<<Entry("error", Str("Condition not met"))>>)
             /\ calls[r].res.sends = 1
             /\ calls[r].log = <<"condition">>
             /\ calls[r].wake = -1 /\ calls[r].sentAt = calls[r].startAt
             /\ EndpointOf(calls[r].key).delay > 0
             /\ ~DeclaredHeaderSet(r)

C17_Witness ==
    \E r \in Answered :
        /\ inbox[r].path = "/vip/41"
        /\ calls[r].key = "GET /vip/:id"
        /\ calls[r].res.statusCode = 404
        /\ calls[r].log = <<"condition">>

(***************************************************************************)
(* Termination of a request, and failures.                                 *)
(***************************************************************************)
\* the requests whose handler has ended
Ended == {r \in 1..Len(calls) : calls[r].pc \in {"done", "rejected"}}

HasEntries(v, names) ==
    v.t = "object" /\ \A n \in names : HasKey(v.items, n)

\* C18: every request handed to the catch-all handler, a path whose
\* parameter segment is not valid percent-encoding included, ends with
\* exactly one response: the 404 of an unknown route with error, method, path
\* and availableRoutes, the 404 of a condition not met, the answer of the
\* endpoint with its status, or a 500; none is answered twice and none is
\* left without a response.
C18_ExactlyOneResponse ==
    /\ \A r \in 1..Len(calls) : calls[r].res.sends <= 1
    /\ \A r \in Ended :
         /\ calls[r].res.sends = 1
         /\ \/ /\ calls[r].key = "" /\ calls[r].res.statusCode = 404
               /\ HasEntries(calls[r].res.body,
                             {"error", "method", "path", "availableRoutes"})
            \/ /\ calls[r].res.statusCode = 404
               /\ calls[r].res.body = Obj(<<Entry("error", Str("Condition not met"))>>)
            \/ /\ calls[r].key # ""
               /\ calls[r].res.statusCode
                    = (IF EndpointOf(calls[r].key).status = 0 THEN 200
                       ELSE EndpointOf(calls[r].key).status)
            \/ calls[r].res.statusCode = 500

\* the requests during which an error is raised: a parameter segment that
\* does not decode, a header value that may not be set, a body value whose
\* conversion to a string throws
Raises(r) ==
    \/ inbox[r].path \in {"/users/%zz", "/echo/%zz", "/badheader"}
    \/ /\ inbox[r].method = "POST" /\ inbox[r].path = "/echo"
       /\ Lookup(inbox[r].body.items, "user").t = "object"

\* C19: an error raised while one request is handled, route resolution
\* included, becomes a 500 response with error and message, and no request
\* makes the server process exit or stop serving.
C19_FailuresBecome500 ==
    /\ alive
    /\ \A r \in Ended :
         Raises(r) => /\ calls[r].res.statusCode = 500
                      /\ calls[r].res.sends = 1
                      /\ HasEntries(calls[r].res.body, {"error", "message"})

(***************************************************************************)
(* The delay among concurrent requests.                                    *)
(***************************************************************************)
\* the place of a request in the order of the answers, 0 when unanswered
AnswerRank(r) ==
    IF \E i \in 1..Len(served) : served[i] = r
    THEN CHOOSE i \in 1..Len(served) : served[i] = r
    ELSE 0

\* C20: the answer of an endpoint with delay d > 0 is never sent before d
\* ticks have passed since the request passed the condition gate; and a
\* request to an endpoint without delay whose handler starts while another
\* request is suspended in its delay is answered at once, before the delayed
\* one, whatever the order of the events.
C20_DelayLowerBound ==
    \A r \in 1..Len(calls) :
        /\ ( /\ calls[r].pc = "done" /\ calls[r].key # ""
             /\ EndpointOf(calls[r].key).delay > 0 ) =>
               /\ calls[r].gateAt >= 0
               /\ calls[r].sentAt - calls[r].gateAt >= EndpointOf(calls[r].key).delay
        /\ ( /\ calls[r].pc # "new" /\ calls[r].key # ""
             /\ EndpointOf(calls[r].key).delay = 0 ) =>
               /\ calls[r].pc = "done"
               /\ calls[r].sentAt = calls[r].startAt
               /\ \A q \in calls[r].waiting :
                    AnswerRank(q) = 0 \/ AnswerRank(r) < AnswerRank(q)

\* a request without delay, started after a delayed one, is answered first
C20_Witness ==
    \E r, q \in Answered :
        /\ inbox[q].path = "/premium" /\ inbox[r].path = "/users/42"
        /\ q \in calls[r].waiting
        /\ calls[q].startAt < calls[r].startAt
        /\ AnswerRank(r) < AnswerRank(q)
        /\ calls[q].sentAt - calls[q].gateAt >= 2

(***************************************************************************)
(* Validated keys and compiled routes.                                     *)
(***************************************************************************)
\* the text of a declaration from its first "/" on
SlashText(route) ==
    LET at == {i \in 1..Len(route) : Ch(route, i) = "/"}
    IN  IF at = {} THEN "" ELSE SubSeq(route, Min(at), Len(route))

\* C23: every declaration that isValidRoute accepts is compiled by parseRoute
\* without error into a route whose path is exactly the text of the
\* declaration from its "/" on, and matchRoute matches a request for that path
C23_ValidatedKeysCompile ==
    (parsed.done /\ isValidRoute(decl)) =>
        /\ parsed.r.ok
        /\ parsed.r.path = SlashText(decl)

\* C23, the declarations whose verb and path are set apart by more than one
\* blank: the compiled route matches a request for the declared path
C23_TwoBlanksMatch ==
    (parsed.done /\ parsed.r.ok /\ isValidRoute(decl) /\ SplitPath(decl) # SlashText(decl)) =>
        matchRoute(parsed.r, parsed.r.method, SlashText(decl)).kind # "null"

(***************************************************************************)
(* Conditions on path and query parameters.                                *)
(***************************************************************************)
ParamId == Get(context.params, "id")

\* C24: with condition "params.id > 10" and a path parameter made of decimal
\* digits, the condition is the comparison of the integers: the request is
\* served when id is greater than 10 (id = 42) and gets 404 when it is not
\* (id = 5)
C24_NumericParam ==
    (condResult.done /\ endpoint.condition = "params.id > 10" /\ AllDigits(ParamId)) =>
        /\ condResult.value = (parseIntJS(ParamId).n > 10)
        /\ condResult.status = (IF parseIntJS(ParamId).n > 10 THEN endpoint.status ELSE 404)

\* C25: with condition query.type === "premium", a request whose query
\* parameter type is absent or is a text other than premium, whatever its
\* characters, is not served: the condition is false and the answer is 404
C25_QueryGateCloses ==
    ( /\ condResult.done /\ endpoint.condition = "query.type === \"premium\""
      /\ QueryType.t \in {"string", "undefined"}
      /\ QueryType # Str("premium") ) =>
        /\ condResult.value = FALSE
        /\ condResult.status = 404

(***************************************************************************)
(* Request data in templates.                                              *)
(***************************************************************************)
\* the field of the request body a template of one body placeholder names
BodyField ==
    Lookup(context.body.items, SubSeq(response.s, 8, Len(response.s) - 2))

\* C30: a body field that is present expands to its text: a field holding the
\* number 0 or the boolean false, alone in the template, gives 0 or false,
\* not the empty text of an absent field
C30_FalsyFieldExpands ==
    ( /\ passes = 1 /\ context.body.t = "object"
      /\ response \in {Str("{{body.zip}}"), Str("{{body.password}}")} ) =>
        /\ BodyField = Num(0) => expanded = Num(0)
        /\ BodyField = Bool(FALSE) => expanded = Bool(FALSE)

(***************************************************************************)
(* Which answers are bytes.                                                *)
(***************************************************************************)
\* C29: a request is answered with bytes only when the template of its
\* endpoint holds a binary placeholder; a template that is a plain text, a
\* request value or a literal text of the base64 alphabet is answered as text
C29_BytesOnlyForBinaryPlaceholder ==
    \A r \in Answered :
        calls[r].res.body.t = "bytes" =>
            /\ EndpointOf(calls[r].key).response.t = "string"
            /\ includes(EndpointOf(calls[r].key).response.s, "{{binary.")

(***************************************************************************)
(* Declared OPTIONS routes.                                                *)
(***************************************************************************)
\* C28: with the default options a request for a declared OPTIONS route is
\* dispatched to its endpoint: the answer to OPTIONS /users/42 has the status,
\* the headers and the expanded response of "OPTIONS /users/:id"
C28_OptionsDispatched ==
    \A r \in Answered :
        (inbox[r].method = "OPTIONS" /\ inbox[r].path = "/users/42") =>
            /\ calls[r].key = "OPTIONS /users/:id"
            /\ calls[r].res.statusCode = 204
            /\ Lookup(calls[r].res.headers, "allow") = "GET, OPTIONS"
            /\ calls[r].res.body = Str("options 42")

(***************************************************************************)
(* Reload of the config while requests are served.                         *)
(***************************************************************************)
\* the requests whose route was resolved
Resolved == {r \in 1..Len(calls) : calls[r].key # ""}

\* what the endpoint's template expands to for the request
BodyFor(ep, params) ==
    IF ep.response = Str("old {{params.id}}") THEN Str("old " \o Get(params, "id"))
    ELSE IF ep.response = Str("new {{params.id}}") THEN Str("new " \o Get(params, "id"))
    ELSE ep.response

\* the answer is the one of the endpoint: its status, its headers, its
\* expanded template
AnswerOf(res, ep, params) ==
    /\ res.statusCode = (IF ep.status = 0 THEN 200 ELSE ep.status)
    /\ \A i \in 1..Len(ep.headers) :
         Lookup(res.headers, toLowerCase(ep.headers[i].name)) = ep.headers[i].value
    /\ res.body = BodyFor(ep, params)

\* C21: a reload is atomic for requests.  The route list is at all times the
\* one compiled from the whole endpoint map; the route and the endpoint of a
\* request are of one config, the old or the new; a request suspended in its
\* delay waits the delay of the endpoint it was resolved to and is answered
\* with that endpoint's status, headers and template
C21_ReloadAtomic ==
    /\ routes = parseRoutes(RouteKeys(mockConfig))
    /\ \A r \in Resolved :
         /\ \E c \in {ConfigOld, ConfigNew} :
              HasKey(c, calls[r].key) /\ calls[r].ep = Get(c, calls[r].key)
         /\ calls[r].wake # -1 => calls[r].wake = calls[r].gateAt + calls[r].ep.delay
         /\ calls[r].pc = "done" => AnswerOf(calls[r].res, calls[r].ep, calls[r].params)

\* a request resolved before the reload is answered, after a request resolved
\* after the reload, with the old endpoint
C21_Witness ==
    \E i, j \in 1..Len(served) :
        /\ i < j
        /\ calls[served[i]].ep = Get(ConfigNew, "GET /item/:id")
        /\ calls[served[j]].ep = Get(ConfigOld, "GET /item/:id")
        /\ calls[served[j]].res.statusCode = 200
        /\ calls[served[j]].res.body = Str("old " \o Get(calls[served[j]].params, "id"))
        /\ mockConfig = ConfigNew

\* the text of the request path after "/item/"
ItemOf(req) == SubSeq(req.path, 7, Len(req.path))

\* C22: serving requests changes neither the endpoint map, with its
\* templates, nor the route list: without a reload they are those of the
\* load; and the context of a request holds nothing of another request: the
\* answer to a request for an item names the item of this request
C22_DispatchFrame ==
    /\ reloads = 0 =>
         /\ mockConfig = ConfigOld
         /\ routes = parseRoutes(RouteKeys(ConfigOld))
    /\ \A r \in Answered :
         calls[r].key = "GET /item/:id" =>
            /\ calls[r].params = <<Entry("id", ItemOf(inbox[r]))>>
            /\ calls[r].res.body \in {Str("old " \o ItemOf(inbox[r])),
                                      Str("new " \o ItemOf(inbox[r]))}

\* two requests for different items are answered without a reload
C22_Witness ==
    /\ reloads = 0 /\ Len(served) = 2
    /\ calls[served[1]].res.body = Str("old 7")
    /\ calls[served[2]].res.body = Str("old 8")
    /\ mockConfig = ConfigOld

\* C26: after the load and any reloads, the original route of every compiled
\* route is a key of the endpoint map, and the route list has exactly one
\* entry for each key that compiles and none for a key that does not
C26_RoutesOfCurrentConfig ==
    /\ \A i \in 1..Len(routes) : HasKey(mockConfig, routes[i].originalRoute)
    /\ \A k \in 1..Len(mockConfig) :
         Cardinality({i \in 1..Len(routes) : routes[i].originalRoute = mockConfig[k].name})
           = (IF parseRoute(mockConfig[k].name).ok THEN 1 ELSE 0)

\* a reload has replaced the config by one with a key that does not compile
C26_Witness ==
    /\ reloads > 0 /\ alive
    /\ mockConfig = ConfigNew
    /\ ~parseRoute(mockConfig[1].name).ok
    /\ Len(routes) = 1 /\ routes[1].originalRoute = "GET /item/:id"

\* C27: a reload that fails is reported as failed, leaves the route list and
\* the endpoint map those of the last load that succeeded, and the server
\* keeps running
C27_FailedReloadKeepsServing ==
    [][(reloads' = reloads + 1 /\ loadError' # "") =>
          (mockConfig' = mockConfig /\ routes' = routes /\ alive')]_vars
====
